------------------------------ MODULE Lifetime ------------------------------
(***************************************************************************)
(* Who keeps the implementation of a channel alive, and how it ends.       *)
(*                                                                         *)
(* A channel object holds a shared pointer to its channel_impl.  Copies of *)
(* it, the operations made from it with << and >>, and the closures that   *)
(* close() posts to the executor hold the same implementation.  (A channel *)
(* has a destructor of its own and so no move: moving one copies it.)  The *)
(* destructor of any channel object closes the channel for all.  When the  *)
(* last holder goes, so does the implementation: ~channel_impl fails what  *)
(* still waits if no closure has closed it before.                         *)
(*                                                                         *)
(* The executor is a context that runs posted closures and handlers, first *)
(* come first served, and drops what is left when it is destroyed.  The    *)
(* channel has no buffer; what its flushes do inside is in Channel.        *)
(***************************************************************************)
EXTENDS Naturals, Sequences, FiniteSets, Functions

CONSTANTS
  Handle,    \* the channel objects: one is constructed, the others are copies
  Poc,       \* the operations made with >> and << (basic_channel_producer ...)
  Sender,    \* the calls of async_send, or of async_wait of a producer
  Receiver,  \* the calls of async_consume, or the consumers of a tie
  Closing,   \* the posted closure of close()
  MaxClosures \* bound: close() is called while fewer closures are posted

Call == Sender \cup Receiver
Owner == Handle \cup Poc

ASSUME DisjointAssumption ==
  /\ Handle \cap Poc = {}
  /\ Sender \cap Receiver = {}
  /\ Closing \notin Call

VARIABLES
  impl,       \* "none", then "running", "closed", "destroyed"
  owner,      \* owner[x]: object x is not yet made, live or gone
  waiting,    \* the queue of the implementation: calls of one kind
  submitted,  \* the calls that were made
  queue,      \* what is posted to the executor: closures and handlers of calls
  invoked,    \* the calls whose handler has run
  dropped,    \* the calls whose handler the executor destroyed without a call
  context     \* "open" until the executor's context is destroyed

vars == <<impl, owner, waiting, submitted, queue, invoked, dropped, context>>

Live == {x \in Owner : owner[x] = "live"}

-----------------------------------------------------------------------------
(***************************************************************************)
(* The end of a step that closes the channel, or lets go of a reference.   *)
(* `own` are the objects and q the executor's queue after the step, before *)
(* the flush posts the handlers of the waiting calls.                      *)
(***************************************************************************)
ReferencedByOwners(own, q) == \E x \in Owner : own[x] = "live"       \* mutant

\* The shared pointers: in objects and in the closures that close() posted.
Referenced(own, q) ==
  (\E x \in Owner : own[x] = "live") \/ Closing \in Range(q)

FlushesByClose(own, q, closes) == impl = "running" /\ closes         \* mutant

FlushesAtEnd(own, q, closes) ==                                      \* mutant
  impl = "running" /\ ~Referenced(own, q)

\* close() and ~channel_impl flush a running channel: all that waits fails.
Flushes(own, q, closes) ==
  impl = "running" /\ (closes \/ ~Referenced(own, q))

Settle(own, q, closes) ==
  /\ owner' = own
  /\ impl' = IF ~Referenced(own, q) THEN "destroyed"
             ELSE IF closes THEN "closed" ELSE impl
  /\ queue' = IF Flushes(own, q, closes) THEN q \o waiting ELSE q
  /\ waiting' = IF Flushes(own, q, closes) THEN <<>> ELSE waiting

Gone(x) == [owner EXCEPT ![x] = "gone"]

-----------------------------------------------------------------------------
\* The constructor: create_impl and the first channel object.
Construct(h) ==
  /\ impl = "none" /\ context = "open"
  /\ impl' = "running"
  /\ owner' = [owner EXCEPT ![h] = "live"]
  /\ UNCHANGED <<waiting, submitted, queue, invoked, dropped, context>>

\* A channel is copied; an operation is made from a channel, or copied.
Share(x) ==
  /\ owner[x] = "none"
  /\ (Live \cap Handle) \cup (IF x \in Poc THEN Live ELSE {}) # {}
  /\ owner' = [owner EXCEPT ![x] = "live"]
  /\ UNCHANGED <<impl, waiting, submitted, queue, invoked, dropped, context>>

\* A call through some object: it fails on a closed channel, is matched with a
\* call that waits, or waits.
Partners(k) ==
  {j \in Range(waiting) : (j \in Sender) # (k \in Sender)}

Submit(k) ==
  /\ Live # {} /\ k \notin submitted
  /\ submitted' = submitted \cup {k}
  /\ \/ /\ impl = "closed"
        /\ queue' = Append(queue, k)
        /\ UNCHANGED waiting
     \/ /\ impl = "running" /\ Partners(k) = {}
        /\ waiting' = Append(waiting, k)
        /\ UNCHANGED queue
     \/ /\ impl = "running" /\ Partners(k) # {}
        /\ queue' = queue \o (IF k \in Sender THEN <<k, Head(waiting)>>
                                              ELSE <<Head(waiting), k>>)
        /\ waiting' = Tail(waiting)
  /\ UNCHANGED <<impl, owner, invoked, dropped, context>>

\* channel::close dispatches the closing: at once when the caller runs in the
\* executor, posted with a reference to the implementation otherwise.
Dispatch(own, inline) ==
  IF inline THEN Settle(own, queue, TRUE)
            ELSE Settle(own, Append(queue, Closing), FALSE)

\* close(), which a running program may call at any time.
Close(h) ==
  /\ owner[h] = "live"
  /\ Cardinality({i \in DOMAIN queue : queue[i] = Closing}) < MaxClosures
  /\ \E inline \in BOOLEAN : Dispatch(owner, inline)
  /\ UNCHANGED <<submitted, invoked, dropped, context>>

DestroyNoClose(h) ==                                                 \* mutant
  /\ owner[h] = "live"
  /\ Settle(Gone(h), queue, FALSE)
  /\ UNCHANGED <<submitted, invoked, dropped, context>>

\* ~channel: close(), then the shared pointer goes.
Destroy(h) ==
  /\ owner[h] = "live"
  /\ \E inline \in BOOLEAN : Dispatch(Gone(h), inline)
  /\ UNCHANGED <<submitted, invoked, dropped, context>>

\* The destructor of an operation closes nothing.
Release(p) ==
  /\ owner[p] = "live"
  /\ Settle(Gone(p), queue, FALSE)
  /\ UNCHANGED <<submitted, invoked, dropped, context>>

\* The context runs what was posted first.
RunClosure ==
  /\ queue # <<>> /\ Head(queue) = Closing
  /\ Settle(owner, Tail(queue), TRUE)
  /\ UNCHANGED <<submitted, invoked, dropped, context>>

RunHandlerAnyway ==                                                  \* mutant
  /\ queue # <<>>
  /\ invoked' = invoked \cup {Head(queue)}
  /\ queue' = Tail(queue)
  /\ UNCHANGED <<impl, owner, waiting, submitted, dropped, context>>

RunHandler ==
  /\ queue # <<>> /\ Head(queue) # Closing
  /\ invoked' = invoked \cup {Head(queue)}
  /\ queue' = Tail(queue)
  /\ UNCHANGED <<impl, owner, waiting, submitted, dropped, context>>

Run == context = "open" /\ (RunClosure \/ RunHandler)

\* The context is destroyed, after all that uses it: closures and handlers
\* that were not run are destroyed, and with the last closure the
\* implementation, whose flush posts to the context that is going.
DestroyContext ==
  /\ context = "open" /\ impl # "none" /\ Live = {}
  /\ context' = "destroyed"
  /\ dropped' = dropped \cup (Range(queue) \ {Closing}) \cup
                  (IF Flushes(owner, <<>>, FALSE) THEN Range(waiting) ELSE {})
  /\ queue' = <<>>
  /\ waiting' = IF Flushes(owner, <<>>, FALSE) THEN <<>> ELSE waiting
  /\ impl' = "destroyed"
  /\ UNCHANGED <<owner, submitted, invoked>>

Init ==
  /\ impl = "none"
  /\ owner = [x \in Owner |-> "none"]
  /\ waiting = <<>>
  /\ submitted = {}
  /\ queue = <<>>
  /\ invoked = {}
  /\ dropped = {}
  /\ context = "open"

Next ==
  \/ \E h \in Handle : Construct(h) \/ Close(h) \/ Destroy(h)
  \/ \E x \in Owner : Share(x)
  \/ \E p \in Poc : Release(p)
  \/ \E k \in Call : Submit(k)
  \/ Run
  \/ DestroyContext

Spec == Init /\ [][Next]_vars

\* A context that is not destroyed keeps running; objects may live for ever.
FairSpec == Spec /\ WF_vars(Run)

-----------------------------------------------------------------------------
TypeOK ==
  /\ impl \in {"none", "running", "closed", "destroyed"}
  /\ owner \in [Owner -> {"none", "live", "gone"}]
  /\ waiting \in Seq(Call)
  /\ submitted \subseteq Call
  /\ queue \in Seq(Call \cup {Closing})
  /\ invoked \subseteq Call
  /\ dropped \subseteq Call
  /\ context \in {"open", "destroyed"}

\* The implementation exists exactly as long as something holds it: no closure
\* of close() runs on a destroyed implementation, although the channel that
\* posted it is gone by then (channel.hpp:322 captures the pointer).
AliveWhileHeld ==
  impl \in {"running", "closed"} <=> Live # {} \/ Closing \in Range(queue)

\* Each call is in sequence s at most once.
Once(s) == \A i, j \in DOMAIN s : s[i] = s[j] /\ s[i] # Closing => i = j

\* Every call that was made waits in a running channel, or its handler is
\* posted, has run, or was dropped with its context - one of these, and once:
\* no end of a channel, through close(), a destructor or a dropped closure,
\* forgets a call or completes it twice (channel_impl.hpp:101-131).
CallsAccounted ==
  LET posted == Range(queue) \ {Closing} IN
  /\ waiting # <<>> => impl = "running"
  /\ Once(waiting) /\ Once(queue)
  /\ submitted = Range(waiting) \cup posted \cup invoked \cup dropped
  /\ Range(waiting) \cap (posted \cup invoked \cup dropped) = {}
  /\ posted \cap (invoked \cup dropped) = {}
  /\ invoked \cap dropped = {}
  /\ dropped # {} => context = "destroyed"

\* The destructor of one channel object closes the channel for all holders,
\* as soon as what it posted has run (channel.hpp:70-73): an operation that
\* outlives the channel it was made from never waits for ever.
DestructorCloses ==
  (\E h \in Handle : owner[h] = "gone") /\ impl = "running"
     => Closing \in Range(queue)

\* Before the channel is constructed there is nothing.
NothingYet ==
  impl = "none" => owner = [x \in Owner |-> "none"] /\ waiting = <<>>

\* The inductive invariant about the holders of the implementation.
HeldInv == NothingYet /\ AliveWhileHeld /\ DestructorCloses

\* Once a channel object is gone, every call that was made on any copy comes
\* to its handler, unless the context is destroyed before.
WaitsEnd ==
  \A k \in Call :
    k \in submitted /\ (\E h \in Handle : owner[h] = "gone")
      ~> k \in invoked \cup dropped
=============================================================================
