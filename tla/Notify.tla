------------------------------- MODULE Notify -------------------------------
(***************************************************************************)
(* PgNotifyService: LISTEN on a connection of its own, with reconnection   *)
(* and a debounce window, as seen by the one consumer of one channel.      *)
(* src/dispatch/pg-notify.service.ts                                       *)
(*                                                                         *)
(* A notification is handed to the sessions that listen when its           *)
(* transaction commits, and to nobody else; losing it on the way is the    *)
(* same as dropping the session a moment earlier.  The wake is modelled up *)
(* to the first await of onWake: wake[r] counts the handlers that have     *)
(* been called on replica r and whose first statement has not run yet.     *)
(* Nothing calls enableShutdownHooks, so a replica only ever stops by a    *)
(* crash: onModuleDestroy is not reached.                                  *)
(***************************************************************************)
EXTENDS Naturals, FiniteSets

CONSTANTS
  Replicas,
  MaxWakes         \* bound: handlers called and not yet started, per replica

ASSUME WakeAssumption == MaxWakes \in Nat

VARIABLES
  link,            \* "off" | "connecting" | "live" (this.client) | "waiting" (reconnectTimer)
  opening,         \* where connect() is after its client is up: "no" | "listen" | "fire"
  subscribed,      \* the consumer has called subscribe()
  heard,           \* the session has LISTENed on the channel
  window,          \* the debounce timer is set
  wake

notifyVars == <<link, opening, subscribed, heard, window, wake>>

NotifyTypeOK ==
  /\ link \in [Replicas -> {"off", "connecting", "live", "waiting"}]
  /\ opening \in [Replicas -> {"no", "listen", "fire"}]
  /\ subscribed \in [Replicas -> BOOLEAN]
  /\ heard \in [Replicas -> BOOLEAN]
  /\ window \in [Replicas -> BOOLEAN]
  /\ wake \in [Replicas -> 0..MaxWakes]

NotifyInit ==
  /\ link = [r \in Replicas |-> "off"]
  /\ opening = [r \in Replicas |-> "no"]
  /\ subscribed = [r \in Replicas |-> FALSE]
  /\ heard = [r \in Replicas |-> FALSE]
  /\ window = [r \in Replicas |-> FALSE]
  /\ wake = [r \in Replicas |-> 0]

-----------------------------------------------------------------------------

(* onApplicationBootstrap: the first connect().                            *)
Boot(r) ==
  /\ link[r] = "off"
  /\ link' = [link EXCEPT ![r] = "connecting"]
  /\ UNCHANGED <<opening, subscribed, heard, window, wake>>

(* subscribe() may come before or after the connection; on a live one it   *)
(* LISTENs at once, wakes nobody, and only logs a LISTEN that fails.       *)
Subscribe(r, listens) ==
  /\ link[r] # "off" /\ ~subscribed[r]
  /\ subscribed' = [subscribed EXCEPT ![r] = TRUE]
  /\ heard' = [heard EXCEPT ![r] = listens /\ link[r] = "live"]
  /\ UNCHANGED <<link, opening, window, wake>>

(* client.connect() resolves.                                              *)
Connect(r) ==
  /\ link[r] = "connecting"
  /\ link' = [link EXCEPT ![r] = "live"]
  /\ opening' = [opening EXCEPT ![r] = "listen"]
  /\ UNCHANGED <<subscribed, heard, window, wake>>

ConnectFails(r) ==
  /\ link[r] = "connecting"
  /\ link' = [link EXCEPT ![r] = "waiting"]
  /\ UNCHANGED <<opening, subscribed, heard, window, wake>>

(* The LISTEN of connect().  It fails on a session that has dropped, and   *)
(* may fail on one that has not: listenOn logs that and goes on.           *)
Listen(r, listens) ==
  /\ opening[r] = "listen"
  /\ opening' = [opening EXCEPT ![r] = "fire"]
  /\ heard' = [heard EXCEPT ![r] = @ \/ (listens /\ subscribed[r] /\ link[r] = "live")]
  /\ UNCHANGED <<link, subscribed, window, wake>>

(* A reconnection that only LISTENs again.                                 *)
ListenOnConnect(r) ==
  /\ opening[r] = "fire" /\ wake[r] < MaxWakes
  /\ opening' = [opening EXCEPT ![r] = "no"]
  /\ UNCHANGED <<link, subscribed, heard, window, wake>>

(* fire(subscription, []): drain, for what was notified to nobody.         *)
FireOnConnect(r) ==
  /\ opening[r] = "fire" /\ wake[r] < MaxWakes
  /\ opening' = [opening EXCEPT ![r] = "no"]
  /\ wake' = [wake EXCEPT ![r] = IF subscribed[r] THEN @ + 1 ELSE @]
  /\ UNCHANGED <<link, subscribed, heard, window>>

(* handleDrop: the client is forgotten and the back-off timer set.         *)
HandleDrop(r) ==
  /\ link[r] = "live"
  /\ link' = [link EXCEPT ![r] = "waiting"]
  /\ heard' = [heard EXCEPT ![r] = FALSE]
  /\ UNCHANGED <<opening, subscribed, window, wake>>

(* The back-off timer.  A query on a dropped session fails at once, so the *)
(* connect() that was opening it has ended by then (RECONNECT_MIN_MS).     *)
Reconnect(r) ==
  /\ link[r] = "waiting" /\ opening[r] = "no"
  /\ link' = [link EXCEPT ![r] = "connecting"]
  /\ UNCHANGED <<opening, subscribed, heard, window, wake>>

(* The end of the debounce window: one wake for the whole burst.           *)
WindowCloses(r) ==
  /\ window[r] /\ wake[r] < MaxWakes
  /\ window' = [window EXCEPT ![r] = FALSE]
  /\ wake' = [wake EXCEPT ![r] = @ + 1]
  /\ UNCHANGED <<link, opening, subscribed, heard>>

(* A LISTEN that fails on a session that stays up.                         *)
ListenFails(r) == link[r] = "live" /\ (Subscribe(r, FALSE) \/ Listen(r, FALSE))

NotifyStep(r) ==
  \/ Boot(r) \/ Subscribe(r, TRUE) \/ Connect(r) \/ ConnectFails(r) \/ Listen(r, TRUE)
  \/ FireOnConnect(r) \/ HandleDrop(r) \/ Reconnect(r) \/ WindowCloses(r)

(* What the connection's own timers and callbacks are bound to do.         *)
NotifyProgress(r) ==
  \/ Boot(r) \/ Subscribe(r, TRUE) \/ Connect(r) \/ Listen(r, TRUE)
  \/ FireOnConnect(r) \/ Reconnect(r) \/ WindowCloses(r)

-----------------------------------------------------------------------------
(* What the consumer's actions are made of.                                *)

(* pg_notify at COMMIT: onNotification opens the window where it is heard. *)
OnNotification ==
  /\ window' = [r \in Replicas |-> window[r] \/ heard[r]]
  /\ UNCHANGED <<link, opening, subscribed, heard, wake>>

(* A handler that starts without having been called.                       *)
OnNothing(r) ==
  /\ wake' = [wake EXCEPT ![r] = @ - 1]
  /\ UNCHANGED <<link, opening, subscribed, heard, window>>

(* A called handler runs its first statement.                              *)
OnWake(r) ==
  /\ wake[r] > 0
  /\ wake' = [wake EXCEPT ![r] = @ - 1]
  /\ UNCHANGED <<link, opening, subscribed, heard, window>>

(* The process is gone, and with it everything it kept in memory.          *)
CrashNotify(r) ==
  /\ link[r] # "off"
  /\ link' = [link EXCEPT ![r] = "off"]
  /\ opening' = [opening EXCEPT ![r] = "no"]
  /\ subscribed' = [subscribed EXCEPT ![r] = FALSE]
  /\ heard' = [heard EXCEPT ![r] = FALSE]
  /\ window' = [window EXCEPT ![r] = FALSE]
  /\ wake' = [wake EXCEPT ![r] = 0]

(* A session that is up and was never told to LISTEN: the LISTEN failed.   *)
Deaf(r) == link[r] = "live" /\ opening[r] = "no" /\ ~heard[r]

(* A notification sent now will not be lost on replica r.                  *)
Attentive(r) == subscribed[r] /\ ~Deaf(r)

(* Replica r is going to wake its consumer, whatever else happens to its   *)
(* connection.                                                             *)
WillWake(r) ==
  /\ subscribed[r]
  /\ window[r] \/ wake[r] > 0 \/ opening[r] # "no" \/ link[r] # "live"

=============================================================================
