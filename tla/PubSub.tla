------------------------------- MODULE PubSub -------------------------------
(***************************************************************************)
(* The subscriptions of the resilient client, composed with its connection *)
(* life cycle: Subscribe, Unsubscribe, Close and resubscribeAll run in the *)
(* callers' goroutines or in a reconnectLoop under subMu; each subscription*)
(* is served by a subscribeLoop goroutine of its own that takes no lock.   *)
(*                                                                         *)
(* info.pubsub is written by the subscribeLoop and read under subMu by the *)
(* others.  A loop owns at most one open PubSub; shared says whether       *)
(* info.pubsub points to it, to an earlier one (closed), or to nothing.    *)
(***************************************************************************)
EXTENDS ResilientClient

CONSTANTS
    Channels,
    Subs,       \* subscribeLoop goroutines, one per call of Subscribe
    NoSub

ASSUME SubsAssumption == NoSub \notin Subs

VARIABLES
    subscriptions,  \* rc.subscriptions: channel -> its subscribeLoop
    sub,            \* where each subscribeLoop is
    pubsub,         \* its latest PubSub: "none", "open" or "closed"
    shared,         \* info.pubsub: "nil", "stale" or "current"
    cancelled,      \* its context
    swept           \* Close has been through the subscriptions

subVars == <<subscriptions, sub, pubsub, shared, cancelled, swept>>
allVars == <<vars, subVars>>

SubPoints == {"unused", "top", "await", "register", "listen", "lost", "done"}

Registered(s) == \E ch \in Channels : subscriptions[ch] = s

(* Closing info.pubsub reaches the open PubSub only once it is registered. *)
Closing(S) ==
    [s \in Subs |-> IF s \in S /\ shared[s] = "current" THEN "closed" ELSE pubsub[s]]

-----------------------------------------------------------------------------
Subscribe(ch, s) ==
    /\ subscriptions[ch] = NoSub
    /\ sub[s] = "unused"
    /\ subscriptions' = [subscriptions EXCEPT ![ch] = s]
    /\ sub' = [sub EXCEPT ![s] = "top"]
    /\ UNCHANGED <<pubsub, shared, cancelled, swept, vars>>

Unsubscribe(ch) ==
    LET s == subscriptions[ch] IN
    /\ s # NoSub
    /\ cancelled' = [cancelled EXCEPT ![s] = TRUE]
    /\ pubsub' = Closing({s})
    /\ subscriptions' = [subscriptions EXCEPT ![ch] = NoSub]
    /\ UNCHANGED <<sub, shared, swept, vars>>

(* The context a caller gave to Subscribe ends.                            *)
CallerCancels(s) ==
    /\ sub[s] # "unused"
    /\ ~cancelled[s]
    /\ cancelled' = [cancelled EXCEPT ![s] = TRUE]
    /\ UNCHANGED <<subscriptions, sub, pubsub, shared, swept, vars>>

resubscribeAll(l) ==
    /\ LoopResubscribe(l)
    /\ pubsub' = Closing({s \in Subs : Registered(s)})
    /\ UNCHANGED <<subscriptions, sub, shared, cancelled, swept>>

(* Variant: the PubSubs are closed and the contexts are not.               *)
CloseSubscriptions_KeepsContexts ==
    /\ closed
    /\ ~swept
    /\ swept' = TRUE
    /\ pubsub' = Closing({s \in Subs : Registered(s)})
    /\ subscriptions' = [ch \in Channels |-> NoSub]
    /\ UNCHANGED <<sub, shared, cancelled, vars>>

(* The second half of Close, under subMu, after the context is cancelled.  *)
CloseSubscriptions ==
    /\ closed
    /\ ~swept
    /\ swept' = TRUE
    /\ cancelled' = [s \in Subs |-> cancelled[s] \/ Registered(s)]
    /\ pubsub' = Closing({s \in Subs : Registered(s)})
    /\ subscriptions' = [ch \in Channels |-> NoSub]
    /\ UNCHANGED <<sub, shared, vars>>

-----------------------------------------------------------------------------
(* subscribeLoop *)

Goto(s, from, to) ==
    /\ sub[s] = from
    /\ sub' = [sub EXCEPT ![s] = to]

SubTop(s) ==
    /\ Goto(s, "top", IF cancelled[s] \/ closed THEN "done" ELSE "await")
    /\ UNCHANGED <<subscriptions, pubsub, shared, cancelled, swept, vars>>

(* Waiting for the connection looks at this subscription's context only.   *)
SubGivesUp(s) ==
    /\ connState # Connected
    /\ cancelled[s]
    /\ Goto(s, "await", "done")
    /\ UNCHANGED <<subscriptions, pubsub, shared, cancelled, swept, vars>>

SubOpen(s) ==
    /\ connState = Connected
    /\ Goto(s, "await", "register")
    /\ pubsub' = [pubsub EXCEPT ![s] = "open"]
    /\ shared' = [shared EXCEPT ![s] = IF @ = "nil" THEN "nil" ELSE "stale"]
    /\ UNCHANGED <<subscriptions, cancelled, swept, vars>>

SubRegister(s) ==
    /\ Goto(s, "register", "listen")
    /\ shared' = [shared EXCEPT ![s] = "current"]
    /\ UNCHANGED <<subscriptions, pubsub, cancelled, swept, vars>>

(* Variant: the loop leaves the closing to whoever cancelled it.           *)
SubStops_NoClose(s) ==
    /\ cancelled[s]
    /\ Goto(s, "listen", "done")
    /\ UNCHANGED <<subscriptions, pubsub, shared, cancelled, swept, vars>>

SubStops(s) ==
    /\ cancelled[s]
    /\ Goto(s, "listen", "done")
    /\ pubsub' = [pubsub EXCEPT ![s] = "closed"]
    /\ UNCHANGED <<subscriptions, shared, cancelled, swept, vars>>

(* Variant: a closed channel ends the subscription.                        *)
SubLost_Ends(s) ==
    /\ pubsub[s] = "closed"
    /\ Goto(s, "listen", "done")
    /\ UNCHANGED <<subscriptions, pubsub, shared, cancelled, swept, vars>>

(* The message channel is closed: somebody closed the PubSub.              *)
SubLost(s) ==
    /\ pubsub[s] = "closed"
    /\ Goto(s, "listen", "lost")
    /\ UNCHANGED <<subscriptions, pubsub, shared, cancelled, swept, vars>>

(* The select on the context and the backoff timer.                        *)
SubBackoff(s) ==
    /\ \/ Goto(s, "lost", "top")
       \/ cancelled[s] /\ Goto(s, "lost", "done")
    /\ UNCHANGED <<subscriptions, pubsub, shared, cancelled, swept, vars>>

-----------------------------------------------------------------------------
SubInit ==
    /\ Init
    /\ subscriptions = [ch \in Channels |-> NoSub]
    /\ sub = [s \in Subs |-> "unused"]
    /\ pubsub = [s \in Subs |-> "none"]
    /\ shared = [s \in Subs |-> "nil"]
    /\ cancelled = [s \in Subs |-> FALSE]
    /\ swept = FALSE

subscribeLoop(s) ==
    \/ SubTop(s)
    \/ SubGivesUp(s)
    \/ SubOpen(s)
    \/ SubRegister(s)
    \/ SubStops(s)
    \/ SubLost(s)
    \/ SubBackoff(s)

(* The steps of the client that leave the subscriptions alone.             *)
ClientStep ==
    /\ \/ \E l \in Loops :
             \/ LoopStart(l) \/ LoopDial(l) \/ LoopPing(l) \/ LoopBackoff(l)
             \/ LoopGiveUp(l) \/ LoopOnline(l) \/ LoopTell(l) \/ LoopReset(l)
       \/ HealthStep
       \/ \E c \in Callers : CallStep(c)
       \/ Close
       \/ Environment
    /\ UNCHANGED subVars

SubNext ==
    \/ ClientStep
    \/ \E l \in Loops : resubscribeAll(l)
    \/ \E ch \in Channels, s \in Subs : Subscribe(ch, s)
    \/ \E ch \in Channels : Unsubscribe(ch)
    \/ \E s \in Subs : CallerCancels(s)
    \/ CloseSubscriptions
    \/ \E s \in Subs : subscribeLoop(s)

(* The goroutines run; Close, once begun, goes on.                         *)
SubFairness ==
    /\ \A l \in Loops : WF_allVars((LoopStep(l) /\ UNCHANGED subVars) \/ resubscribeAll(l))
    /\ WF_allVars(HealthStep /\ UNCHANGED subVars)
    /\ \A s \in Subs : WF_allVars(subscribeLoop(s))
    /\ WF_allVars(CloseSubscriptions)

SubSpec == SubInit /\ [][SubNext]_allVars /\ SubFairness

-----------------------------------------------------------------------------
(* Properties *)

(* No PubSub outlives its loop: although Unsubscribe, Close and            *)
(* resubscribeAll may see an info.pubsub that is not yet the open one, a   *)
(* subscribeLoop that has returned has left nothing open (subscribeLoop).  *)
NoLeakedPubSub ==
    \A s \in Subs : sub[s] = "done" => pubsub[s] # "open"

(* The client stays connected and a subscription stays registered: it ends *)
(* up listening on an open PubSub, whatever resubscribeAll closed before.  *)
AutoResubscribe ==
    \A s \in Subs :
        <>[](redisUp /\ connState = Connected /\ ~closed /\ Registered(s) /\ ~cancelled[s])
            => <>[](sub[s] = "listen" /\ pubsub[s] = "open")

(* Close stops every subscribeLoop, also those that wait for a connection  *)
(* that never comes back.                                                  *)
CloseStopsListeners ==
    closed ~> [](\A s \in Subs : sub[s] \in {"unused", "done"})

=============================================================================
