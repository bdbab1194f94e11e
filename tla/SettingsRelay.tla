---------------------------- MODULE SettingsRelay ----------------------------
(***************************************************************************)
(* What the control calls of a host promise, with no calls in it: the      *)
(* controller goes through the settings the host asked for, in order and   *)
(* without leaving one out, and ends with the last.  An interval may       *)
(* arrive one millisecond short.                                           *)
(***************************************************************************)
EXTENDS Integers, Sequences

CONSTANTS
  Field,      \* names of settings
  Rounded,    \* those that are intervals
  Unset       \* the settings of a new session

VARIABLES
  wanted,     \* what the host asked for
  ahead,      \* the settings the controller has yet to go through
  have        \* the controller's settings

relayVars == <<wanted, ahead, have>>

(* A value is absent, or a sequence of one element.                        *)
Near(a, b) == a = b \/ (a # <<>> /\ b # <<>> /\ a[1] = b[1] - 1)

Agrees(s, t) == \A f \in Field : IF f \in Rounded THEN Near(s[f], t[f]) ELSE s[f] = t[f]

RelayInit == wanted = Unset /\ ahead = <<>> /\ have = Unset

Ask ==
  /\ DOMAIN wanted' = Field
  /\ ahead' = Append(ahead, wanted')
  /\ have' = have

Follow ==
  /\ ahead # <<>>
  /\ DOMAIN have' = Field /\ Agrees(have', Head(ahead))
  /\ ahead' = Tail(ahead)
  /\ wanted' = wanted

Restart == wanted' = Unset /\ ahead' = <<>> /\ have' = Unset

RelaySpec == RelayInit /\ [][Ask \/ Follow \/ Restart]_relayVars
=============================================================================
