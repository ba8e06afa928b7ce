-------------------------------- MODULE Names --------------------------------
(***************************************************************************)
(* What the rule engine, the correlator and the comparison of two runs     *)
(* share: the subsystem that is read off a failure, which is               *)
(* SubsystemOrActuator of internal/rules/rules.go, and milliseconds.       *)
(***************************************************************************)
EXTENDS Integers

CONSTANTS
    NoName,   \* the empty string
    Unknown,  \* the subsystem shown when nothing names one
    Milli     \* ticks per millisecond: timestamps are finer

\* What the subsystem and the actuator of a failure, each perhaps empty, make of it.
FirstNamed(subsystem, actuator) ==
    CASE subsystem # NoName                        -> subsystem
      [] subsystem = NoName /\ actuator # NoName   -> actuator
      [] OTHER                                     -> Unknown

\* Round(time.Millisecond) of a positive duration: half a millisecond rounds up.
Rounded(took) == (2 * took + Milli) \div (2 * Milli)

=============================================================================
