---------------------------- MODULE EventDelivery ----------------------------
(***************************************************************************)
(* What a publisher is promised about its events.  An event that was       *)
(* accepted stays owed until its plugin has handled it, has refused it, or *)
(* has had all the tries its manifest allows; a delivered event is         *)
(* finished; one that was given up can be revived, with all its tries.     *)
(* Replicas, leases, cycles, circuits and clocks do not appear:            *)
(* PluginEventDispatcher implements this specification.                    *)
(***************************************************************************)
EXTENDS Naturals

CONSTANTS
  Events,
  Budget     \* how many tries an event has before it may be given up

VARIABLES
  fate,      \* "unknown" before the event is accepted
  tries,     \* tries begun since it was accepted or revived
  handled,   \* the events the plugin has handled
  refused    \* the events some try under way knows to be refused

deliveryVars == <<fate, tries, handled, refused>>

Fates == {"unknown", "owed", "delivered", "given_up"}

DeliveryInit ==
  /\ fate = [e \in Events |-> "unknown"]
  /\ tries = [e \in Events |-> 0]
  /\ handled = {}
  /\ refused = {}

Accept(e) ==
  /\ fate[e] = "unknown"
  /\ fate' = [fate EXCEPT ![e] = "owed"]
  /\ UNCHANGED <<tries, handled, refused>>

\* A replica begins to send a batch of owed events.
Try(E) ==
  /\ \A e \in E : fate[e] = "owed"
  /\ tries' = [e \in Events |-> IF e \in E THEN tries[e] + 1 ELSE tries[e]]
  /\ UNCHANGED <<fate, handled, refused>>

\* The plugin may handle an event late, and more than once.
Handled(e) ==
  /\ fate[e] # "unknown"
  /\ handled' = handled \cup {e}
  /\ UNCHANGED <<fate, tries, refused>>

\* The plugin refuses, or may no longer be sent, the event.
Refused(e) ==
  /\ fate[e] # "unknown"
  /\ refused' = refused \cup {e}
  /\ UNCHANGED <<fate, tries, handled>>

\* A try that ends without being recorded takes what it knew with it.
Forget(E) ==
  /\ refused' = refused \ E
  /\ UNCHANGED <<fate, tries, handled>>

Deliver(e) ==
  /\ fate[e] = "owed" /\ tries[e] > 0
  /\ e \in handled
  /\ fate' = [fate EXCEPT ![e] = "delivered"]
  /\ UNCHANGED <<tries, handled, refused>>

GiveUp(e) ==
  /\ fate[e] = "owed" /\ tries[e] > 0
  /\ e \in refused \/ tries[e] >= Budget[e]
  /\ fate' = [fate EXCEPT ![e] = "given_up"]
  /\ refused' \in {refused, refused \ {e}}
  /\ UNCHANGED <<tries, handled>>

Revive(e) ==
  /\ fate[e] = "given_up"
  /\ fate' = [fate EXCEPT ![e] = "owed"]
  /\ tries' = [tries EXCEPT ![e] = 0]
  /\ UNCHANGED <<handled, refused>>

DeliveryNext ==
  \/ \E e \in Events : \/ Accept(e) \/ Handled(e) \/ Refused(e)
                       \/ Deliver(e) \/ GiveUp(e) \/ Revive(e)
  \/ \E E \in SUBSET Events : Try(E) \/ Forget(E)

DeliverySpec == DeliveryInit /\ [][DeliveryNext]_deliveryVars
=============================================================================
