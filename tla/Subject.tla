------------------------------ MODULE Subject ------------------------------
(***************************************************************************)
(* meta/Observer.hpp: a list of observers that other threads may change    *)
(* while one thread is notifying.  Whoever cannot take regM_ at once puts  *)
(* its change into registrationQueue_, which notify applies at its end.    *)
(*                                                                         *)
(* These are the pieces of registerObserver, unregisterObserver and notify *)
(* between two accesses to shared state; CameraController puts threads on  *)
(* them.  An observer is known by its id; ids are never reused.            *)
(***************************************************************************)
EXTENDS Integers, Sequences

CONSTANTS MaxId,   \* bound: how many registrations are ever made
          Nobody   \* regM_ is free

VARIABLES observers,          \* ids in observers_
          registrationQueue,
          nextFreeId,
          regM,               \* who holds regM_
          toNotify            \* the part of observers_ notify has still to call

subjectVars == <<observers, registrationQueue, nextFreeId, regM, toNotify>>

Ids == 1 .. MaxId
Operations == [type : {"REGISTRATION", "UNREGISTRATION"}, id : Ids]

SubjectTypeOK(threads) ==
  /\ observers \subseteq Ids
  /\ registrationQueue \in Seq(Operations)
  /\ nextFreeId \in 1 .. MaxId + 1
  /\ regM \in threads \cup {Nobody}
  /\ toNotify \subseteq observers

SubjectInit ==
  /\ observers = {}
  /\ registrationQueue = << >>
  /\ nextFreeId = 1
  /\ regM = Nobody
  /\ toNotify = {}

-----------------------------------------------------------------------------
(* std::unique_lock{regM_, std::try_to_lock}: taken, or known to be busy.  *)
TryLock(t) ==
  /\ regM = Nobody
  /\ regM' = t
  /\ UNCHANGED <<observers, registrationQueue, nextFreeId, toNotify>>

LockBusy ==
  /\ regM # Nobody
  /\ UNCHANGED subjectVars

RegisterNow(t) ==
  /\ regM = t
  /\ nextFreeId \in Ids
  /\ observers' = observers \cup {nextFreeId}
  /\ nextFreeId' = nextFreeId + 1
  /\ regM' = Nobody
  /\ UNCHANGED <<registrationQueue, toNotify>>

RegisterLater ==
  /\ nextFreeId \in Ids
  /\ registrationQueue' =
       Append(registrationQueue, [type |-> "REGISTRATION", id |-> nextFreeId])
  /\ nextFreeId' = nextFreeId + 1
  /\ UNCHANGED <<observers, regM, toNotify>>

(* unregisterObserverUnsafe; true when the observer was found.             *)
UnregisterNow(t, id, found) ==
  /\ regM = t
  /\ found = (id \in observers)
  /\ observers' = observers \ {id}
  /\ regM' = Nobody
  /\ UNCHANGED <<registrationQueue, nextFreeId, toNotify>>

UnregisterLater(id) ==
  /\ registrationQueue' =
       Append(registrationQueue, [type |-> "UNREGISTRATION", id |-> id])
  /\ UNCHANGED <<observers, nextFreeId, regM, toNotify>>

-----------------------------------------------------------------------------
(* notify: std::lock_guard waits for regM_.                                *)
NotifyBegin_Bug(t) ==   \* the lock guard is missing
  /\ toNotify' = observers
  /\ UNCHANGED <<observers, registrationQueue, nextFreeId, regM>>

NotifyBegin(t) ==
  /\ regM = Nobody
  /\ regM' = t
  /\ toNotify' = observers
  /\ UNCHANGED <<observers, registrationQueue, nextFreeId>>

NotifyOne(id) ==
  /\ id \in toNotify
  /\ toNotify' = toNotify \ {id}
  /\ UNCHANGED <<observers, registrationQueue, nextFreeId, regM>>

(* Items are applied in order: the last one on an id decides.              *)
Handled(obs, items) ==
  {id \in Ids :
     \/ id \in obs /\ \A k \in DOMAIN items : items[k].id # id
     \/ \E k \in DOMAIN items :
          /\ items[k] = [type |-> "REGISTRATION", id |-> id]
          /\ \A j \in DOMAIN items : j > k => items[j].id # id}

(* handleRegistrationQueue, under regQueueM_.                              *)
HandleRegistrationQueue ==
  /\ observers' = Handled(observers, registrationQueue)
  /\ registrationQueue' = << >>
  /\ UNCHANGED <<nextFreeId, regM, toNotify>>

NotifyEnd ==
  /\ regM' = Nobody
  /\ UNCHANGED <<observers, registrationQueue, nextFreeId, toNotify>>
=============================================================================
