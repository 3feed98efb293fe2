----------------------------- MODULE Interlock -----------------------------
(***************************************************************************)
(* critical-control-relay and safety-interlock.  The relay publishes a     *)
(* beat every second; the interlock stamps the last beat when it arrives,  *)
(* looks at the stamp every second, and goes to safe mode when it is more  *)
(* than three seconds old.  Time is counted in looks of the interlock: a   *)
(* stamp is n looks old when it was stamped before the last n of them.     *)
(***************************************************************************)
EXTENDS Integers, FiniteSetsExt

CONSTANTS
    BeatMax,  \* bound on the beats held back, and on those on their way
    AgeMax    \* bound on the age of the last beat

ASSUME BeatAssumption == BeatMax \in Nat \ {0} /\ AgeMax \in Nat /\ AgeMax > 4

VARIABLES
    relay,     \* whether the relay runs
    link,      \* whether the relay is connected to the broker
    ear,       \* whether the broker knows the interlock's subscription
    slow,      \* whether a disk storm delays the beats
    held,      \* beats the relay's client could not send yet
    beats,     \* beats sent and not yet delivered
    age,       \* looks since the stamp `last`
    tripped,   \* safe mode
    ticker,    \* where the goroutine of the ticker is
    callback   \* where the callback of the subscription is

lvars == <<relay, link, ear, slow, held, beats, age, tripped, ticker, callback>>

Relay == <<relay, link, slow, held>>

(* The bound on counted beats. *)
Capped(n) == Min({n, BeatMax})

LInit ==
    /\ relay = TRUE /\ link = TRUE /\ slow = FALSE
    /\ held = 0 /\ beats = 0
    /\ ear = FALSE
    /\ age = 0 /\ tripped = FALSE
    /\ ticker = "off" /\ callback = "idle"

(* The loop around Connect ends; Subscribe, and the ticker starts.  Until   *)
(* then nobody looks at `last`.                                             *)
Subscribed ==
    /\ ticker = "off"
    /\ ear' = TRUE /\ ticker' = "started"
    /\ UNCHANGED <<Relay, beats, age, tripped, callback>>

(* A second passes.  The relay publishes; beats that nothing delays have    *)
(* arrived within their second, and the interlock's goroutines have done    *)
(* what they were at.                                                       *)
Second ==
    /\ ticker \in {"off", "started", "wait"} /\ callback = "idle"
    /\ beats = 0 \/ slow
    /\ beats' = IF relay /\ link THEN Capped(beats + 1) ELSE beats
    /\ held' = IF relay /\ ~link THEN Capped(held + 1) ELSE held
    /\ age' = Min({age + 1, AgeMax})
    /\ ticker' = IF ticker = "off" THEN "off" ELSE "look"
    /\ UNCHANGED <<relay, link, slow, ear, tripped, callback>>

(* Mutant: four missed beats. *)
LookLate ==
    /\ ticker = "look"
    /\ ticker' = IF age > 4 THEN "stale" ELSE "wait"
    /\ UNCHANGED <<Relay, ear, beats, age, tripped, callback>>

(* The ticker reads `last`, reads `tripped`, and stores `tripped`: three    *)
(* steps, and the callback may run between any two.                         *)
Look ==
    /\ ticker = "look"
    /\ ticker' = IF age > 3 THEN "stale" ELSE "wait"
    /\ UNCHANGED <<Relay, ear, beats, age, tripped, callback>>
LookTripped ==
    /\ ticker = "stale"
    /\ ticker' = IF tripped THEN "wait" ELSE "trip"
    /\ UNCHANGED <<Relay, ear, beats, age, tripped, callback>>
Trip ==
    /\ ticker = "trip"
    /\ tripped' = TRUE /\ ticker' = "wait"
    /\ UNCHANGED <<Relay, ear, beats, age, callback>>

(* A beat is delivered, and stamped at its arrival; without a subscription  *)
(* the broker drops it.                                                     *)
Beat ==
    /\ beats > 0 /\ ear /\ callback = "idle"
    /\ beats' = beats - 1
    /\ age' = 0 /\ callback' = "stamped"
    /\ UNCHANGED <<Relay, ear, tripped, ticker>>
BeatUnheard ==
    /\ beats > 0 /\ ~ear
    /\ beats' = beats - 1
    /\ UNCHANGED <<Relay, ear, age, tripped, ticker, callback>>

(* Mutant: the callback only stamps. *)
RearmNever ==
    /\ callback = "stamped"
    /\ callback' = "idle"
    /\ UNCHANGED <<Relay, ear, beats, age, tripped, ticker>>

(* The second store of the callback. *)
Rearm ==
    /\ callback = "stamped"
    /\ tripped' = FALSE /\ callback' = "idle"
    /\ UNCHANGED <<Relay, ear, beats, age, ticker>>

(* The interlock is restarted: armed, with a fresh stamp, before it has     *)
(* heard of the relay.                                                      *)
InterlockRestarts ==
    /\ ear' = FALSE /\ age' = 0 /\ tripped' = FALSE
    /\ ticker' = "off" /\ callback' = "idle"
    /\ UNCHANGED <<Relay, beats>>

(* The interlock's connection breaks.  The client connects again by itself  *)
(* and does not subscribe again: the session was a clean one.               *)
EarLost ==
    /\ ear /\ ear' = FALSE
    /\ UNCHANGED <<Relay, beats, age, tripped, ticker, callback>>

(* The relay stops, with the beats its client held, and starts. *)
RelayStops ==
    /\ relay /\ relay' = FALSE /\ held' = 0
    /\ UNCHANGED <<link, slow, ear, beats, age, tripped, ticker, callback>>
RelayStarts ==
    /\ ~relay /\ relay' = TRUE
    /\ UNCHANGED <<link, slow, held, ear, beats, age, tripped, ticker, callback>>

(* The relay's connection breaks: its client keeps the beats from then on,  *)
(* and when it is connected again they all go out at once.                  *)
LinkBreaks ==
    /\ link /\ link' = FALSE
    /\ UNCHANGED <<relay, slow, held, ear, beats, age, tripped, ticker, callback>>
LinkReturns ==
    /\ ~link /\ link' = TRUE
    /\ beats' = Capped(beats + held) /\ held' = 0
    /\ UNCHANGED <<relay, slow, ear, age, tripped, ticker, callback>>

(* A disk storm on the node delays what is on its way. *)
StormComesOrGoes ==
    /\ slow' = ~slow
    /\ UNCHANGED <<relay, link, held, ear, beats, age, tripped, ticker, callback>>

Ticker == Look \/ LookTripped \/ Trip
Delivery == Beat \/ BeatUnheard
Surroundings == \/ RelayStops \/ RelayStarts \/ LinkBreaks \/ LinkReturns
                \/ StormComesOrGoes \/ EarLost

LNext == \/ Subscribed \/ Second \/ Ticker \/ Delivery \/ Rearm
         \/ InterlockRestarts \/ Surroundings

LSpec == LInit /\ [][LNext]_lvars

-----------------------------------------------------------------------------
(* Properties *)

(* safety-interlock main.go 1: safe mode after three missed beats.  Once    *)
(* the ticker has looked, a beat more than three seconds old means safe     *)
(* mode, however the ticker and the callback interleaved before.            *)
TripsInTime == ticker = "wait" /\ age > 3 => tripped

(* The mode follows the relay: if in the end beats keep coming and no storm *)
(* delays them, the interlock ends up armed, also when the ticker stored    *)
(* safe mode over a fresh beat; if in the end none can come, it ends up in  *)
(* safe mode, whatever beats were held back or came late before, and even   *)
(* if it never hears anything again.                                        *)
BeatsArrive == relay /\ link /\ ear /\ ~slow
NoneArrives == (~relay \/ ~link \/ ~ear) /\ ticker # "off"
ModeFollowsRelay ==
    /\ <>[]BeatsArrive => <>[]~tripped
    /\ <>[]NoneArrives => <>[]tripped
=============================================================================
