---------------------------- MODULE CaptureProofs ----------------------------
(* What holds of a capture with any sinks, clocks and word sizes, with       *)
(* proofs checked by TLAPS.                                                  *)
EXTENDS Capture, TLAPS

-----------------------------------------------------------------------------
(* The invariant, in parts. *)

(* The pipeline is there from openCapture to the end of Start or of media.   *)
Owned ==
    /\ start.at = "new" => pipeline = "none"
    /\ start.at \in {"reading", "dialing", "closing"} => pipeline = "playing"
    /\ start.at = "started" => pipeline = IF stop = "closed" THEN "freed" ELSE "playing"
    /\ start.at = "failed" => pipeline \in {"none", "freed"}

(* Who is at work on it, and until when. *)
Opening ==
    /\ reader["open"].at \in {"none", "read", "bus", "pull", "got", "failed", "done"}
    /\ reader["open"].at \notin {"none", "done"} => start.at = "reading"
Pumped ==
    \A s \in Sink :
        /\ reader[s].at \in {"none", "top", "read", "bus", "pull", "send", "cancel", "done"}
        /\ reader[s].at # "none" => start.at = "started"
        /\ pump.at \in {"returned", "done"} => reader[s].at = "done"
Stopping ==
    /\ pump.at # "none" <=> start.at = "started"
    /\ stop # "no" => start.at = "started"
    /\ stop = "closed" => pump.at = "done"
    /\ user.at = "using" => start.at = "started" /\ stop # "closed"

(* The first failure that is told of while media is wanted is the capture's. *)
Failing ==
    /\ pump.cancelled => failures # <<>>
    /\ ~media /\ failures # <<>> => failures[1] = "capture"
    /\ \A s \in Sink :
          /\ reader[s].at = "send" => \/ reader[s].err = "capture"
                                      \/ reader[s].err = "cancelled" /\ (media \/ pump.cancelled)
          /\ reader[s].at = "cancel" => failures # <<>>
          /\ reader[s].at = "done" => media \/ failures # <<>>

Ending ==
    /\ pump.at # "done" => error = "" /\ ~run
    /\ pump.at = "returned" => media \/ pump.err = "capture"

Reporting ==
    user.at = "reported" =>
        user.sink \in Sink /\ user.running \in Running /\ user.time = RTPTime(user.sink, user.running)

-----------------------------------------------------------------------------
(* Scaling a running time. *)

LEMMA Division ==
    ASSUME NEW a \in Nat, NEW b \in Nat \ {0}
    PROVE  /\ a \div b \in Nat /\ a % b \in 0..(b - 1)
           /\ a = b * (a \div b) + (a % b)
  OBVIOUS

LEMMA QuotientUnique ==
    ASSUME NEW b \in Nat \ {0}, NEW q \in Nat, NEW r \in 0..(b - 1)
    PROVE  (b * q + r) \div b = q /\ (b * q + r) % b = r
  OBVIOUS

LEMMA Monotone ==
    ASSUME NEW a \in Nat, NEW b \in Nat, a <= b, NEW c \in Nat
    PROVE  a * c <= b * c /\ c * a <= c * b
<1>1. PICK d \in Nat : b = a + d
  <2>1. b - a \in Nat /\ b = a + (b - a)
    OBVIOUS
  <2> QED  BY <2>1
<1>2. b * c = a * c + d * c /\ d * c \in Nat
  BY <1>1
<1> QED  BY <1>2

(* The product of the scale never leaves 64 bits, because the whole seconds  *)
(* and the rest are scaled apart; the sum is the exact quotient.             *)
LEMMA ScaledExact ==
    ASSUME NEW s \in Sink, NEW t \in Running
    PROVE  Scaled(s, t) = (t * Rate[s]) \div Second /\ Scaled(s, t) \in Nat
<1> DEFINE R == Rate[s]
           q == t \div Second
           r == t % Second
<1>1. /\ R \in Nat /\ 1 <= R /\ R <= Second /\ Second * R < Long
      /\ Second \in Nat \ {0} /\ Long \in Nat /\ t \in Nat /\ t < Long
  BY ClockAssumption
<1>2. q \in Nat /\ r \in Nat /\ r < Second /\ t = Second * q + r
  <2>1. /\ t \div Second \in Nat /\ t % Second \in 0..(Second - 1)
        /\ t = Second * (t \div Second) + (t % Second)
    BY <1>1, Division
  <2> QED  BY <1>1, <2>1
<1>10. Scaled(s, t) = (((q * R) % Long) + ((r * R) % Long) \div Second) % Long
  BY DEF Scaled
<1> HIDE DEF R, q, r
<1>3. q * R \in Nat /\ q * R <= q * Second /\ r * R \in Nat /\ r * R <= Second * R
  BY <1>1, <1>2, Monotone
<1>4. q * R < Long /\ r * R < Long
  <2>1. q * Second = Second * q /\ Second * q \in Nat
    BY <1>1, <1>2
  <2>2. q * Second <= t
    BY <1>1, <1>2, <2>1
  <2>3. q * Second \in Nat /\ Second * R \in Nat
    BY <1>1, <1>2
  <2> QED  BY <1>1, <1>3, <2>2, <2>3
<1>5. \A x \in Nat : x < Long => x % Long = x
  BY <1>1
<1>6. PICK u, v \in Nat : r * R = Second * u + v /\ v < Second /\ u = (r * R) \div Second
  <2> DEFINE x == r * R
  <2>1. /\ x \div Second \in Nat /\ x % Second \in 0..(Second - 1)
        /\ x = Second * (x \div Second) + (x % Second)
    BY <1>1, <1>3, Division
  <2>2. x % Second \in Nat /\ x % Second < Second
    BY <1>1, <2>1
  <2> QED  BY <2>1, <2>2
<1>7. t * R = Second * (q * R + u) + v
  <2>1. t * R = Second * (q * R) + r * R
    BY <1>1, <1>2
  <2>2. Second * (q * R + u) = Second * (q * R) + Second * u
    BY <1>1, <1>3, <1>6
  <2>3. Second * (q * R) \in Nat /\ Second * u \in Nat
    BY <1>1, <1>3, <1>6
  <2> QED  BY <1>3, <1>6, <2>1, <2>2, <2>3
<1>8. (t * R) \div Second = q * R + u
  <2>1. q * R + u \in Nat /\ v \in 0..(Second - 1)
    BY <1>1, <1>3, <1>6
  <2> QED  BY <1>1, <1>7, <2>1, QuotientUnique
<1>9. q * R + u < Long
  <2>1. Second * u \in Nat /\ Second * u <= r * R
    BY <1>1, <1>3, <1>6
  <2>2. u <= r
    <3>1. ASSUME r < u PROVE FALSE
      <4>1. r + 1 <= u /\ r + 1 \in Nat
        BY <1>2, <1>6, <3>1
      <4>2. Second * (r + 1) <= Second * u
        BY <1>1, <1>6, <4>1, Monotone
      <4>3. r * R <= r * Second /\ r * Second = Second * r /\ Second * r \in Nat
        BY <1>1, <1>2, Monotone
      <4>4. Second * (r + 1) = Second * r + Second
        BY <1>1, <1>2
      <4> QED  BY <1>1, <1>3, <2>1, <4>2, <4>3, <4>4
    <3> QED  BY <1>2, <1>6, <3>1
  <2>3. q * R + u <= t
    <3>1. q * Second = Second * q /\ Second * q \in Nat
      BY <1>1, <1>2
    <3> QED  BY <1>1, <1>2, <1>3, <1>6, <2>2, <3>1
  <2> QED  BY <1>1, <1>3, <1>6, <2>3
<1>11. Scaled(s, t) = q * R + u
  <2>1. (q * R) % Long = q * R /\ (r * R) % Long = r * R
    BY <1>3, <1>4, <1>5
  <2>2. Scaled(s, t) = (q * R + u) % Long
    BY <1>6, <1>10, <2>1
  <2>3. q * R + u \in Nat
    BY <1>3, <1>6
  <2> QED  BY <1>5, <1>9, <2>2, <2>3
<1> QED  BY <1>3, <1>6, <1>8, <1>11 DEF R

(* Both ways of reducing to a word, of the scaled time or of the sum, agree. *)
LEMMA RTPTimeExact ==
    ASSUME NEW s \in Sink, NEW t \in Running
    PROVE  /\ RTPTime(s, t) = (Offset[s] + ((t * Rate[s]) \div Second)) % Word
           /\ RTPTime(s, t) \in Nat
<1> DEFINE x == Scaled(s, t)
           o == Offset[s]
<1>1. x = (t * Rate[s]) \div Second /\ x \in Nat
  BY ScaledExact
<1>2. o \in Nat /\ Word \in Nat \ {0}
  BY ClockAssumption
<1> HIDE DEF x, o
<1>3. /\ x \div Word \in Nat /\ x % Word \in 0..(Word - 1)
      /\ x = Word * (x \div Word) + (x % Word)
  BY <1>1, <1>2, Division
<1>4. PICK a, b \in Nat : x = Word * a + b /\ b = x % Word
  BY <1>1, <1>3
<1> DEFINE y == o + b
<1>5. y \in Nat
  BY <1>2, <1>4
<1> HIDE DEF y
<1>6. /\ y \div Word \in Nat /\ y % Word \in 0..(Word - 1)
      /\ y = Word * (y \div Word) + (y % Word)
  BY <1>2, <1>5, Division
<1>7. PICK c, d \in Nat : y = Word * c + d /\ d = y % Word /\ d \in 0..(Word - 1)
  BY <1>6
<1>8. o + x = Word * (a + c) + d
  <2>1. Word * (a + c) = Word * a + Word * c
    BY <1>2, <1>4, <1>7
  <2>2. Word * a \in Nat /\ Word * c \in Nat
    BY <1>2, <1>4, <1>7
  <2>3. o + b = Word * c + d
    BY <1>7 DEF y
  <2> QED  BY <1>2, <1>4, <1>7, <2>1, <2>2, <2>3
<1>9. (o + x) % Word = d
  <2>1. a + c \in Nat
    BY <1>4, <1>7
  <2>2. (Word * (a + c) + d) % Word = d
    BY <1>2, <1>7, <2>1, QuotientUnique
  <2> QED  BY <1>8, <2>2
<1>10. (o + (x % Word)) % Word = d
  BY <1>4, <1>7 DEF y
<1> QED  BY <1>1, <1>7, <1>9, <1>10 DEF RTPTime, x, o

-----------------------------------------------------------------------------
(* Type correctness. *)

LEMMA BecomeTyped ==
    ASSUME TypeOK, NEW r \in Reader, NEW err \in Kind,
           NEW at \in {"none", "top", "read", "bus", "pull", "send", "cancel", "got", "failed",
                       "done"},
           Become(r, at, err)
    PROVE  /\ reader' \in [Reader -> [at : {"none", "top", "read", "bus", "pull", "send",
                                            "cancel", "got", "failed", "done"}, err : Kind]]
           /\ \A o \in Reader : reader'[o] = IF o = r THEN [at |-> at, err |-> err] ELSE reader[o]
  BY DEF Become, TypeOK

LEMMA Steps == FailureSteps[1] = "send" /\ FailureSteps[2] = "cancel"
  BY DEF FailureSteps

(* What a step of a reader makes of it, and of nothing else. *)
LEMMA ReadSteps ==
    ASSUME TypeOK, NEW r \in Reader, Read(r)
    PROVE  /\ UNCHANGED <<start, pipeline, media, run, error, stop, bound, user>>
           /\ bus' \in [pending : BOOLEAN, kept : BOOLEAN]
           /\ \E at \in {"top", "read", "bus", "pull", "send", "cancel", "got", "failed", "done"},
                 err \in Kind : Become(r, at, err)
           /\ UNCHANGED failures \/ failures' = Append(failures, reader[r].err)
           /\ UNCHANGED pump \/ pump' = [pump EXCEPT !.cancelled = TRUE]
<1>1. reader[r].err \in Kind /\ reader[r].at # "none" /\ {"", "capture", "cancelled"} = Kind
  BY DEF TypeOK, Kind, Read, ChecksContext, ChecksBus, Pulls, Writes, Tells
<1>2. CASE ChecksContext(r) \/ Pulls(r) \/ Writes(r)
  BY <1>1, <1>2, Steps DEF ChecksContext, Pulls, Writes, Fail, Kind, TypeOK
<1>3. CASE ChecksBus(r)
  BY <1>1, <1>3, Steps DEF ChecksBus, Fail, Kind, TypeOK
<1>4. CASE Tells(r)
  BY <1>1, <1>4, Steps DEF Tells, TypeOK
<1> QED  BY <1>2, <1>3, <1>4 DEF Read

UserType == [at : {"no", "using", "reported"}, sink : Sink \cup {""},
             running : {0} \cup Running, time : Nat]

LEMMA UserTyped ==
    ASSUME TypeOK, user' \in UserType,
           UNCHANGED <<start, pipeline, bus, reader, failures, pump, media, run, error, stop,
                       bound>>
    PROVE  TypeOK'
<1>1. user' \in [at : {"no", "using", "reported"}, sink : Sink \cup {""},
                 running : {0} \cup Running, time : Nat]
  BY DEF UserType
<1>2. /\ start' \in [at : {"new", "reading", "dialing", "started", "closing", "failed"},
                     left : SUBSET Sink, cancelled : BOOLEAN]
      /\ pipeline' \in {"none", "playing", "freed", "broken"}
  BY DEF TypeOK
<1>3. bus' \in [pending : BOOLEAN, kept : BOOLEAN]
  BY DEF TypeOK
<1>4. reader' \in [Reader -> [at : {"none", "top", "read", "bus", "pull", "send", "cancel",
                                    "got", "failed", "done"}, err : Kind]]
  BY DEF TypeOK
<1>5. failures' \in Seq(Kind)
  BY DEF TypeOK
<1>6. pump' \in [at : {"none", "joining", "returned", "done"}, cancelled : BOOLEAN, err : Kind]
  BY DEF TypeOK
<1>7. /\ media' \in BOOLEAN /\ run' \in BOOLEAN /\ error' \in Kind
      /\ stop' \in {"no", "waiting", "closed"} /\ bound' \subseteq Sink
  BY DEF TypeOK
<1> QED  BY <1>1, <1>2, <1>3, <1>4, <1>5, <1>6, <1>7 DEF TypeOK

LEMMA TypedNext ==
    ASSUME TypeOK, [Next]_vars
    PROVE  TypeOK'
<1>1. ASSUME NEW r \in Reader, Read(r) PROVE TypeOK'
  <2>1. /\ UNCHANGED <<start, pipeline, media, run, error, stop, bound, user>>
        /\ bus' \in [pending : BOOLEAN, kept : BOOLEAN]
    BY <1>1, ReadSteps
  <2>2. reader' \in [Reader -> [at : {"none", "top", "read", "bus", "pull", "send", "cancel",
                                      "got", "failed", "done"}, err : Kind]]
    BY <1>1, ReadSteps, BecomeTyped
  <2>3. failures' \in Seq(Kind)
    <3>1. failures \in Seq(Kind) /\ reader[r].err \in Kind
      BY <1>1 DEF TypeOK
    <3> QED  BY <1>1, <3>1, ReadSteps
  <2>4. pump' \in [at : {"none", "joining", "returned", "done"}, cancelled : BOOLEAN, err : Kind]
    BY <1>1, ReadSteps DEF TypeOK
  <2> QED  BY <2>1, <2>2, <2>3, <2>4 DEF TypeOK
<1>2. CASE Opens \/ FirstPacket
  <2>5. start \in [at : {"new", "reading", "dialing", "started", "closing", "failed"},
                  left : SUBSET Sink, cancelled : BOOLEAN]
    BY DEF TypeOK
  <2>1. /\ start' \in [at : {"new", "reading", "dialing", "started", "closing", "failed"},
                       left : SUBSET Sink, cancelled : BOOLEAN]
        /\ UNCHANGED <<bus, failures, pump, media, run, error, stop, bound, user>>
    BY <1>2, <2>5 DEF Opens, FirstPacket
  <2>6. pipeline' \in {"none", "playing", "freed", "broken"}
    BY <1>2 DEF Opens, FirstPacket, TypeOK
  <2>2. \/ UNCHANGED reader
        \/ Become("open", "read", "") \/ Become("open", "done", "")
    BY <1>2 DEF Opens, FirstPacket
  <2>3. "open" \in Reader /\ "" \in Kind
    BY DEF Reader, Kind
  <2>4. reader' \in [Reader -> [at : {"none", "top", "read", "bus", "pull", "send", "cancel",
                                      "got", "failed", "done"}, err : Kind]]
    BY <2>2, <2>3, BecomeTyped DEF TypeOK
  <2> QED  BY <2>1, <2>4, <2>6 DEF TypeOK
<1>3. CASE Dials
  <2>1. "" \in Kind
    BY DEF Kind
  <2>2. /\ start' \in [at : {"new", "reading", "dialing", "started", "closing", "failed"},
                       left : SUBSET Sink, cancelled : BOOLEAN]
        /\ pump' \in [at : {"none", "joining", "returned", "done"}, cancelled : BOOLEAN, err : Kind]
    BY <1>3 DEF Dials, TypeOK
  <2>3. reader' \in [Reader -> [at : {"none", "top", "read", "bus", "pull", "send", "cancel",
                                      "got", "failed", "done"}, err : Kind]]
    <3>1. reader \in [Reader -> [at : {"none", "top", "read", "bus", "pull", "send", "cancel",
                                     "got", "failed", "done"}, err : Kind]]
      BY DEF TypeOK
    <3>2. [at |-> "top", err |-> ""] \in [at : {"none", "top", "read", "bus", "pull", "send",
                                               "cancel", "got", "failed", "done"}, err : Kind]
      BY <2>1
    <3>3. \/ UNCHANGED reader
          \/ reader' = [r \in Reader |->
                          IF r \in Sink THEN [at |-> "top", err |-> ""] ELSE reader[r]]
      BY <1>3 DEF Dials
    <3> QED  BY <3>1, <3>2, <3>3
  <2> QED  BY <1>3, <2>2, <2>3 DEF Dials, TypeOK
<1>10. CASE StartCloses
  BY <1>10 DEF StartCloses, Freed, TypeOK
<1>4. CASE Pumping
  <2>1. {"", "cancelled"} \subseteq Kind
    BY DEF Kind
  <2>2. failures # <<>> => Head(failures) \in Kind
    <3>1. failures \in Seq(Kind)
      BY DEF TypeOK
    <3> QED  BY <3>1
  <2> QED  BY <1>4, <2>1, <2>2 DEF Pumping, PumpReturns, PumpChecked, RunCancelled, TypeOK
<1>5. CASE StopsMedia \/ ClosesMedia
  BY <1>5 DEF StopsMedia, ClosesMedia, Freed, TypeOK
<1>6. CASE Locks
  BY <1>6 DEF Locks, NoUser, TypeOK
<1>7. CASE Uses
  <2>1. user' \in UserType
    <3>1. CASE user' = NoUser
      BY <3>1 DEF NoUser, UserType
    <3>2. ASSUME NEW s \in bound, NEW t \in Running,
                 user' = [at |-> "reported", sink |-> s, running |-> t, time |-> RTPTime(s, t)]
          PROVE  user' \in UserType
      <4>1. s \in Sink
        BY DEF TypeOK
      <4> QED  BY <3>2, <4>1, RTPTimeExact DEF UserType
    <3> QED  BY <1>7, <3>1, <3>2 DEF Uses
  <2>2. UNCHANGED <<start, pipeline, bus, reader, failures, pump, media, run, error, stop, bound>>
    BY <1>7 DEF Uses
  <2> QED  BY <2>1, <2>2, UserTyped
<1>8. CASE \E s \in Sink : BindsStream(s)
  BY <1>8 DEF BindsStream, TypeOK
<1>9. CASE Environment \/ UNCHANGED vars
  BY <1>9 DEF Environment, BusPosts, StartCancelled, vars, TypeOK
<1> QED
  BY <1>1, <1>2, <1>3, <1>4, <1>5, <1>6, <1>7, <1>8, <1>9, <1>10
  DEF Next, Starting, Using

(* In every state the variables of a capture have their types. *)
THEOREM TypeCorrect == Spec => []TypeOK
<1>1. Init => TypeOK
  <2> SUFFICES ASSUME Init PROVE TypeOK
    OBVIOUS
  <2>1. "" \in Kind /\ <<>> \in Seq(Kind)
    BY DEF Kind
  <2> QED  BY <2>1 DEF Init, NoUser, TypeOK
<1>2. TypeOK /\ [Next]_vars => TypeOK'
  BY TypedNext
<1> QED  BY <1>1, <1>2, PTL DEF Spec

-----------------------------------------------------------------------------
(* Who uses the pipeline. *)

LEMMA BecomeMoves ==
    ASSUME TypeOK, NEW r \in Reader, NEW at, NEW err, Become(r, at, err)
    PROVE  /\ reader'[r].at = at /\ reader'[r].err = err
           /\ \A o \in Reader : o # r => reader'[o] = reader[o]
<1>1. reader' = [reader EXCEPT ![r] = [at |-> at, err |-> err]] /\ DOMAIN reader = Reader
  BY DEF Become, TypeOK
<1> QED  BY <1>1

(* The states of a reader before and after one of its steps. *)
LEMMA ReadMoves ==
    ASSUME TypeOK, Opening, Pumped, NEW r \in Reader, Read(r)
    PROVE  /\ UNCHANGED <<start, pipeline, stop, user, media>> /\ pump'.at = pump.at
           /\ \A o \in Reader : o # r => reader'[o] = reader[o]
           /\ r = "open" => /\ reader[r].at \in {"read", "bus", "pull"}
                            /\ reader'[r].at \in {"read", "bus", "pull", "got", "failed"}
           /\ r # "open" => /\ reader[r].at \in {"top", "read", "bus", "pull", "send", "cancel"}
                            /\ reader'[r].at \in {"top", "read", "bus", "pull", "send", "cancel",
                                                  "done"}
<1>1. UNCHANGED <<start, pipeline, stop, user, media>> /\ pump'.at = pump.at
  BY ReadSteps DEF TypeOK
<1>2. PICK at \in {"top", "read", "bus", "pull", "send", "cancel", "got", "failed", "done"},
           err \in Kind : Become(r, at, err)
  BY ReadSteps
<1>3. \A o \in Reader : o # r => reader'[o] = reader[o]
  BY <1>2, BecomeMoves
<1>4. reader[r].at \in {"top", "read", "bus", "pull", "send", "cancel"}
  BY DEF Read, ChecksContext, ChecksBus, Pulls, Writes, Tells
<1>5. ASSUME r = "open" PROVE reader[r].at \in {"read", "bus", "pull"}
  BY <1>4, <1>5 DEF Opening
<1>6. ASSUME NEW a, NEW e, Become(r, a, e) PROVE reader'[r].at = a
  BY <1>6, BecomeMoves
<1>7. ASSUME NEW e, Fail(r, e)
      PROVE  reader'[r].at = IF r = "open" THEN "failed" ELSE "send"
  BY <1>6, <1>7, Steps DEF Fail
<1>8. CASE ChecksContext(r)
  BY <1>3, <1>4, <1>5, <1>6, <1>7, <1>8, <1>1 DEF ChecksContext
<1>9. CASE ChecksBus(r)
  BY <1>3, <1>4, <1>5, <1>6, <1>7, <1>9, <1>1 DEF ChecksBus
<1>10. CASE Pulls(r)
  BY <1>3, <1>4, <1>5, <1>6, <1>7, <1>10, <1>1 DEF Pulls
<1>11. CASE Writes(r)
  BY <1>3, <1>4, <1>5, <1>6, <1>11, <1>1 DEF Writes
<1>12. CASE Tells(r)
  BY <1>3, <1>4, <1>5, <1>6, <1>12, <1>1, Steps DEF Tells
<1> QED  BY <1>8, <1>9, <1>10, <1>11, <1>12 DEF Read

LEMMA OwnedInit == Init => Owned /\ Opening /\ Pumped /\ Stopping
<1> SUFFICES ASSUME Init PROVE Owned /\ Opening /\ Pumped /\ Stopping
  OBVIOUS
<1>1. /\ start.at = "new" /\ pipeline = "none" /\ pump.at = "none" /\ stop = "no"
      /\ user.at = "no" /\ \A r \in Reader : reader[r].at = "none"
  BY DEF Init, NoUser
<1> QED  BY <1>1 DEF Owned, Opening, Pumped, Stopping, Reader

LEMMA OwnedNext ==
    ASSUME TypeOK, Owned, Opening, Pumped, Stopping, [Next]_vars
    PROVE  Owned' /\ Opening' /\ Pumped' /\ Stopping'
<1> USE SinkAssumption
<1>0. "open" \in Reader /\ Sink \subseteq Reader /\ \A r \in Reader : r = "open" \/ r \in Sink
  BY DEF Reader
<1>1. ASSUME NEW r \in Reader, Read(r)
      PROVE  Owned' /\ Opening' /\ Pumped' /\ Stopping'
  <2>1. /\ UNCHANGED <<start, pipeline, stop, user>> /\ pump'.at = pump.at
        /\ \A o \in Reader : o # r => reader'[o] = reader[o]
    BY <1>1, ReadMoves
  <2>5. /\ r = "open" => /\ reader[r].at \in {"read", "bus", "pull"}
                         /\ reader'[r].at \in {"read", "bus", "pull", "got", "failed"}
        /\ r # "open" => /\ reader[r].at \in {"top", "read", "bus", "pull", "send", "cancel"}
                         /\ reader'[r].at \in {"top", "read", "bus", "pull", "send", "cancel",
                                               "done"}
    BY <1>1, ReadMoves
  <2>2. Owned' /\ Stopping'
    BY <2>1 DEF Owned, Stopping
  <2>3. CASE r = "open"
    <3>1. Opening'
      BY <2>1, <2>3, <2>5 DEF Opening
    <3>2. \A s \in Sink : reader'[s] = reader[s]
      BY <1>0, <2>1, <2>3
    <3> QED  BY <2>1, <2>2, <3>1, <3>2 DEF Pumped
  <2>4. CASE r \in Sink
    <3>1. /\ reader[r].at \in {"top", "read", "bus", "pull", "send", "cancel"}
          /\ reader'[r].at \in {"top", "read", "bus", "pull", "send", "cancel", "done"}
          /\ reader'["open"] = reader["open"]
      BY <1>0, <2>1, <2>4, <2>5
    <3>2. pump.at \notin {"returned", "done"} /\ start.at = "started"
      BY <2>4, <3>1 DEF Pumped
    <3>3. Opening'
      BY <2>1, <3>1 DEF Opening
    <3>4. \A s \in Sink : reader'[s] = reader[s] \/ s = r
      BY <1>0, <2>1
    <3> QED  BY <2>1, <2>2, <3>1, <3>2, <3>3, <3>4 DEF Pumped
  <2> QED  BY <1>0, <2>3, <2>4
(* a step that moves Start *)
<1>2. ASSUME UNCHANGED <<stop, user>>, pump'.at = pump.at, \A s \in Sink : reader'[s] = reader[s],
             start.at # "started", start'.at # "started", Owned', Opening'
      PROVE  Owned' /\ Opening' /\ Pumped' /\ Stopping'
  BY <1>2 DEF Pumped, Stopping
<1>3. CASE Opens
  <2>1. /\ start.at = "new" /\ UNCHANGED <<stop, user, pump>>
        /\ \/ start'.at = "failed" /\ UNCHANGED <<pipeline, reader>>
           \/ start'.at = "closing" /\ pipeline' = "playing" /\ UNCHANGED reader
           \/ start'.at = "reading" /\ pipeline' = "playing" /\ Become("open", "read", "")
    BY <1>3 DEF Opens, TypeOK
  <2>2. Become("open", "read", "") =>
            reader'["open"].at = "read" /\ \A s \in Sink : reader'[s] = reader[s]
    BY <1>0, BecomeMoves
  <2>3. Owned' /\ Opening'
    BY <2>1, <2>2 DEF Owned, Opening
  <2> QED  BY <1>2, <2>1, <2>2, <2>3
<1>4. CASE FirstPacket
  <2>1. /\ start.at = "reading" /\ UNCHANGED <<stop, user, pump, pipeline>>
        /\ \/ start'.at = "reading" /\ Become("open", "read", "")
           \/ start'.at \in {"dialing", "closing"} /\ Become("open", "done", "")
    BY <1>4 DEF FirstPacket, TypeOK
  <2>2. \A at : Become("open", at, "") =>
            reader'["open"].at = at /\ \A s \in Sink : reader'[s] = reader[s]
    BY <1>0, BecomeMoves
  <2>3. Owned' /\ Opening'
    BY <2>1, <2>2 DEF Owned, Opening
  <2> QED  BY <1>2, <2>1, <2>2, <2>3
<1>5. CASE Dials
  <2>1. CASE start' = [start EXCEPT !.at = "closing"] /\ UNCHANGED <<pump, reader>>
    <3>1. start.at = "dialing" /\ start'.at = "closing" /\ UNCHANGED <<stop, user, pipeline>>
      BY <1>5, <2>1 DEF Dials, TypeOK
    <3>2. Owned' /\ Opening'
      BY <2>1, <3>1 DEF Owned, Opening
    <3> QED  BY <1>2, <2>1, <3>1, <3>2
  <2>2. CASE pump' = [pump EXCEPT !.at = "joining"]
    <3>1. /\ start.at = "dialing" /\ start'.at = "started" /\ pump'.at = "joining"
          /\ UNCHANGED <<stop, user, pipeline>>
          /\ reader'["open"] = reader["open"]
          /\ \A s \in Sink : reader'[s].at = "top"
      <4>1. pump.at # "joining" /\ start.at = "dialing" /\ UNCHANGED <<stop, user, pipeline>>
        BY <1>5 DEF Dials, Stopping
      <4>2. pump'.at = "joining"
        BY <2>2 DEF TypeOK
      <4>3. /\ start' = [start EXCEPT !.at = "started"]
            /\ reader' = [r \in Reader |->
                            IF r \in Sink THEN [at |-> "top", err |-> ""] ELSE reader[r]]
        BY <1>5, <4>1, <4>2 DEF Dials
      <4>4. start'.at = "started"
        BY <4>3 DEF TypeOK
      <4> QED  BY <1>0, <4>1, <4>2, <4>3, <4>4
    <3> QED  BY <3>1 DEF Owned, Opening, Pumped, Stopping
  <2> QED  BY <1>5, <2>1, <2>2 DEF Dials
<1>6. CASE StartCloses
  <2>1. /\ start.at = "closing" /\ start'.at = "failed"
        /\ UNCHANGED <<stop, user, pump, reader>>
    BY <1>6 DEF StartCloses, TypeOK
  <2>2. Owned' /\ Opening'
    BY <1>6, <2>1 DEF StartCloses, Freed, Owned, Opening
  <2> QED  BY <1>2, <2>1, <2>2
<1>7. CASE Pumping
  <2>1. /\ pump.at \in {"joining", "returned"} /\ pump'.at \in {"returned", "done"}
        /\ UNCHANGED <<start, pipeline, reader, stop, user>>
        /\ \A s \in Sink : reader[s].at = "done"
    BY <1>7 DEF Pumping, PumpReturns, PumpChecked, Joined, Pumped, TypeOK
  <2> QED  BY <2>1 DEF Owned, Opening, Pumped, Stopping
<1>8. CASE StopsMedia \/ ClosesMedia
  BY <1>8 DEF StopsMedia, ClosesMedia, MediaDone, Freed, Owned, Opening, Pumped, Stopping
<1>9. CASE Using
  BY <1>9 DEF Using, Locks, Uses, BindsStream, NoUser, Owned, Opening, Pumped, Stopping
<1>10. CASE Environment \/ UNCHANGED vars
  <2>1. start'.at = start.at /\ UNCHANGED <<pipeline, reader, pump, stop, user>>
    BY <1>10 DEF Environment, BusPosts, StartCancelled, vars, TypeOK
  <2> QED  BY <2>1 DEF Owned, Opening, Pumped, Stopping
<1> QED
  BY <1>1, <1>3, <1>4, <1>5, <1>6, <1>7, <1>8, <1>9, <1>10 DEF Next, Starting

LEMMA AlwaysOwned == Spec => [](Owned /\ Opening /\ Pumped /\ Stopping)
<1>1. TypeOK /\ Owned /\ Opening /\ Pumped /\ Stopping /\ [Next]_vars
        => Owned' /\ Opening' /\ Pumped' /\ Stopping'
  BY OwnedNext
<1> QED  BY <1>1, OwnedInit, TypeCorrect, PTL DEF Spec

(* No reader and no caller is inside GStreamer with a pipeline that is gone, *)
(* and it is freed once: whoever frees it has waited for all of them, and    *)
(* those that may do it exclude one another.                                 *)
THEOREM NothingUsedAfterClose == Spec => []NoUseAfterClose
<1>1. ASSUME TypeOK, Owned, Opening, Pumped, Stopping PROVE NoUseAfterClose
  <2>1. pipeline # "broken"
    BY <1>1 DEF Owned, TypeOK
  <2>2. user.at = "using" => pipeline = "playing"
    BY <1>1 DEF Owned, Stopping
  <2>3. ASSUME NEW r \in Reader, reader[r].at \in {"bus", "pull"} PROVE pipeline = "playing"
    <3>1. CASE r = "open"
      BY <1>1, <2>3, <3>1 DEF Owned, Opening
    <3>2. CASE r \in Sink
      BY <1>1, <2>3, <3>2 DEF Owned, Pumped, Stopping
    <3> QED  BY <3>1, <3>2 DEF Reader
  <2> QED  BY <2>1, <2>2, <2>3 DEF NoUseAfterClose
<1> QED  BY <1>1, AlwaysOwned, TypeCorrect, PTL

-----------------------------------------------------------------------------
(* The error of a session whose capture failed. *)

LEMMA EmptyIsEmpty == Len(<<>>) = 0
  OBVIOUS

(* Telling a failure keeps the first one. *)
LEMMA AppendKeepsFirst ==
    ASSUME NEW S, NEW q \in Seq(S), NEW e \in S
    PROVE  /\ Append(q, e) # <<>>
           /\ q # <<>> => Append(q, e)[1] = q[1]
           /\ q = <<>> => Append(q, e)[1] = e
<1>1. /\ Len(q) \in Nat /\ Len(Append(q, e)) = Len(q) + 1
      /\ \A i \in 1..Len(q) : Append(q, e)[i] = q[i]
      /\ Append(q, e)[Len(q) + 1] = e
  OBVIOUS
<1>2. Append(q, e) # <<>>
  BY <1>1, EmptyIsEmpty
<1>3. CASE q = <<>>
  BY <1>1, <1>3
<1>4. CASE q # <<>>
  <2>1. Len(q) # 0
    BY <1>4
  <2>2. 1 \in 1..Len(q)
    BY <1>1, <2>1
  <2> QED  BY <1>1, <1>2, <1>4, <2>2
<1> QED  BY <1>2, <1>3, <1>4

LEMMA FailingStays ==
    ASSUME Failing, UNCHANGED failures, pump'.cancelled = pump.cancelled, media => media',
           \A s \in Sink : \/ reader'[s] = reader[s]
                           \/ reader'[s].at \notin {"send", "cancel", "done"}
    PROVE  Failing'
  BY DEF Failing

LEMMA FailingNext ==
    ASSUME TypeOK, Opening, Pumped, Failing, [Next]_vars
    PROVE  Failing'
<1> USE SinkAssumption
<1>0. "open" \in Reader /\ Sink \subseteq Reader /\ \A r \in Reader : r = "open" \/ r \in Sink
  BY DEF Reader
<1>1. ASSUME NEW r \in Reader, Read(r) PROVE Failing'
  <2>1. UNCHANGED media /\ \A o \in Reader : o # r => reader'[o] = reader[o]
    BY <1>1, ReadMoves
  <2>2. ASSUME NEW err, Fail(r, err), r \in Sink
        PROVE  reader'[r].at = "send" /\ reader'[r].err = err
    <3>1. Become(r, "send", err)
      BY <2>2, Steps DEF Fail
    <3> QED  BY <3>1, BecomeMoves
  <2>3. \A at : Become(r, at, "") => reader'[r].at = at
    BY BecomeMoves
  <2>4. CASE r = "open"
    <3>1. UNCHANGED failures /\ pump'.cancelled = pump.cancelled
      <4>1. ~Tells(r)
        BY <2>4 DEF Tells, Opening
      <4> QED  BY <1>1, <4>1 DEF Read, ChecksContext, ChecksBus, Pulls, Writes
    <3>2. \A s \in Sink : reader'[s] = reader[s]
      BY <1>0, <2>1, <2>4
    <3> QED  BY <2>1, <3>1, <3>2, FailingStays
  <2>5. CASE r \in Sink /\ ~Tells(r)
    <3>1. UNCHANGED <<failures, pump>>
      BY <1>1, <2>5 DEF Read, ChecksContext, ChecksBus, Pulls, Writes
    <3>2. \/ reader'[r].at \notin {"send", "cancel", "done"}
          \/ reader'[r].at = "send" /\ reader'[r].err = "capture"
          \/ /\ reader'[r].at = "send" /\ reader'[r].err = "cancelled"
             /\ media \/ pump.cancelled
          \/ reader'[r].at = "done" /\ (media \/ pump.cancelled)
      <4>1. r # "open"
        BY <2>5
      <4>2. CASE ChecksContext(r)
        BY <2>2, <2>3, <2>5, <4>1, <4>2 DEF ChecksContext, Cancelled
      <4>3. CASE ChecksBus(r)
        BY <2>2, <2>3, <2>5, <4>1, <4>3 DEF ChecksBus
      <4>4. CASE Pulls(r)
        BY <2>2, <2>3, <2>5, <4>1, <4>4 DEF Pulls
      <4>5. CASE Writes(r)
        BY <2>3, <4>1, <4>5 DEF Writes, Cancelled
      <4> QED  BY <1>1, <2>5, <4>2, <4>3, <4>4, <4>5 DEF Read
    <3> QED  BY <1>0, <2>1, <3>1, <3>2 DEF Failing
  <2>6. CASE r \in Sink /\ reader[r].at = "send" /\ Tells(r)
    <3>1. /\ failures' = Append(failures, reader[r].err) /\ UNCHANGED pump
          /\ Become(r, "cancel", reader[r].err)
      BY <2>6, Steps DEF Tells
    <3>2. reader'[r].at = "cancel"
      BY <3>1, BecomeMoves
    <3>3. failures \in Seq(Kind) /\ reader[r].err \in Kind
      BY DEF TypeOK
    <3>4. /\ failures' # <<>>
          /\ failures # <<>> => failures'[1] = failures[1]
          /\ failures = <<>> => failures'[1] = reader[r].err
      BY <3>1, <3>3, AppendKeepsFirst
    <3>5. ~media' => failures'[1] = "capture"
      BY <2>1, <2>6, <3>4 DEF Failing
    <3> QED  BY <1>0, <2>1, <2>6, <3>1, <3>2, <3>4, <3>5 DEF Failing
  <2>7. CASE r \in Sink /\ reader[r].at = "cancel" /\ Tells(r)
    <3>1. /\ UNCHANGED failures
          /\ Become(r, "done", reader[r].err)
      BY <2>7, Steps DEF Tells
    <3>2. reader'[r].at = "done"
      BY <3>1, BecomeMoves
    <3>3. failures' # <<>> /\ media' = media
      BY <2>1, <2>7, <3>1 DEF Failing
    <3>4. ~media' => failures'[1] = "capture"
      BY <3>1, <3>3 DEF Failing
    <3>5. pump'.cancelled = TRUE
      BY <2>7 DEF Tells, TypeOK
    <3>6. ASSUME NEW s \in Sink
          PROVE  /\ reader'[s].at = "send" => \/ reader'[s].err = "capture"
                                              \/ reader'[s].err = "cancelled" /\ (media' \/ pump'.cancelled)
                 /\ reader'[s].at = "cancel" => failures' # <<>>
                 /\ reader'[s].at = "done" => media' \/ failures' # <<>>
      <4>1. CASE s = r
        BY <3>2, <3>3, <4>1
      <4>2. CASE s # r
        BY <1>0, <2>1, <3>3, <3>5, <4>2 DEF Failing
      <4> QED  BY <4>1, <4>2
    <3> QED  BY <3>3, <3>4, <3>6 DEF Failing
  <2> QED  BY <1>0, <2>4, <2>5, <2>6, <2>7 DEF Tells
<1>2. CASE Opens \/ FirstPacket
  <2>1. /\ UNCHANGED <<failures, pump, media>>
        /\ UNCHANGED reader \/ \E at \in {"read", "done"} : Become("open", at, "")
    BY <1>2 DEF Opens, FirstPacket
  <2>2. \A s \in Sink : reader'[s] = reader[s]
    BY <1>0, <2>1, BecomeMoves
  <2> QED  BY <2>1, <2>2, FailingStays
<1>3. CASE Dials
  <2>1. UNCHANGED <<failures, media>> /\ pump'.cancelled = pump.cancelled
    BY <1>3 DEF Dials, TypeOK
  <2>2. \A s \in Sink : reader'[s] = reader[s] \/ reader'[s].at = "top"
    <3>1. CASE UNCHANGED reader
      BY <3>1
    <3>2. CASE reader' = [r \in Reader |->
                            IF r \in Sink THEN [at |-> "top", err |-> ""] ELSE reader[r]]
      BY <1>0, <3>2
    <3> QED  BY <1>3, <3>1, <3>2 DEF Dials
  <2> QED  BY <2>1, <2>2, FailingStays
<1>4. CASE Pumping
  <2>1. UNCHANGED <<failures, reader>> /\ pump'.cancelled = pump.cancelled
    BY <1>4 DEF Pumping, PumpReturns, PumpChecked, TypeOK
  <2>2. media => media'
    BY <1>4 DEF Pumping, PumpReturns, PumpChecked
  <2> QED  BY <2>1, <2>2, FailingStays
<1>5. CASE StartCloses \/ StopsMedia \/ ClosesMedia \/ Using \/ Environment \/ UNCHANGED vars
  <2>1. UNCHANGED <<failures, reader, pump>>
    BY <1>5 DEF StartCloses, StopsMedia, ClosesMedia, Using, Locks, Uses, BindsStream,
                Environment, BusPosts, StartCancelled, vars
  <2>2. media => media'
    BY <1>5 DEF StartCloses, StopsMedia, ClosesMedia, Using, Locks, Uses, BindsStream,
                Environment, BusPosts, StartCancelled, vars
  <2> QED  BY <2>1, <2>2, FailingStays
<1> QED  BY <1>1, <1>2, <1>3, <1>4, <1>5 DEF Next, Starting

LEMMA AlwaysFailing == Spec => []Failing
<1>1. Init => Failing
  <2> SUFFICES ASSUME Init PROVE Failing
    OBVIOUS
  <2>1. /\ failures = <<>> /\ pump.cancelled = FALSE
        /\ \A s \in Sink : reader[s].at = "none"
    BY DEF Init, Reader
  <2> QED  BY <2>1 DEF Failing
<1>2. TypeOK /\ Opening /\ Pumped /\ Failing /\ [Next]_vars => Failing'
  BY FailingNext
<1> QED  BY <1>1, <1>2, TypeCorrect, AlwaysOwned, PTL DEF Spec

(* The error that ends the session is the failure of its capture and never   *)
(* the cancellation that it causes; a capture that nobody stopped has one,   *)
(* and then the whole session is ended.                                      *)
THEOREM ErrorIsKept == Spec => []ErrorKept
<1>1. Init => Ending /\ ErrorKept
  <2> SUFFICES ASSUME Init PROVE Ending /\ ErrorKept
    OBVIOUS
  <2>1. pump.at = "none" /\ error = "" /\ run = FALSE
    BY DEF Init
  <2> QED  BY <2>1 DEF Ending, ErrorKept
<1>2. ASSUME TypeOK, Pumped, Stopping, Failing, Ending, ErrorKept, [Next]_vars
      PROVE  Ending' /\ ErrorKept'
  <2>1. ASSUME UNCHANGED <<error, run>>, media => media',
               \/ pump'.at = pump.at /\ pump'.err = pump.err
               \/ pump'.at = "joining" /\ pump.at = "none"
        PROVE  Ending' /\ ErrorKept'
    BY <1>2, <2>1 DEF Ending, ErrorKept
  <2>2. CASE PumpReturns
    <3>1. PICK s \in Sink : reader[s].at = "done"
      BY <2>2, SinkAssumption DEF PumpReturns, Joined
    <3>2. media \/ failures # <<>>
      BY <1>2, <3>1 DEF Failing
    <3>3. failures # <<>> => Head(failures) = failures[1]
      <4>1. failures \in Seq(Kind)
        BY <1>2 DEF TypeOK
      <4> QED  BY <4>1
    <3>4. /\ pump'.at = "returned" /\ UNCHANGED <<media, run, error>>
          /\ failures # <<>> => pump'.err = Head(failures)
      BY <1>2, <2>2 DEF PumpReturns, TypeOK
    <3>5. media \/ pump'.err = "capture"
      BY <1>2, <3>2, <3>3, <3>4 DEF Failing
    <3>6. pump.at = "joining"
      BY <2>2 DEF PumpReturns
    <3> QED  BY <1>2, <3>4, <3>5, <3>6 DEF Ending, ErrorKept
  <2>3. CASE PumpChecked
    <3>1. /\ pump.at = "returned" /\ pump'.at = "done"
          /\ error' = IF ~media THEN pump.err ELSE error
          /\ run' = (run \/ (~media /\ pump.err # ""))
          /\ media' = (media \/ run')
      BY <1>2, <2>3 DEF PumpChecked, RunCancelled, TypeOK
    <3>2. error = "" /\ ~run /\ (media \/ pump.err = "capture")
      BY <1>2, <3>1 DEF Ending
    <3>3. CASE media
      BY <3>1, <3>2, <3>3 DEF Ending, ErrorKept
    <3>4. CASE ~media
      BY <3>1, <3>2, <3>4 DEF Ending, ErrorKept
    <3> QED  BY <3>3, <3>4
  <2>4. ASSUME NEW r \in Reader, Read(r) PROVE Ending' /\ ErrorKept'
    <3>1. UNCHANGED <<error, run, media>> /\ pump'.at = pump.at /\ pump'.err = pump.err
      BY <1>2, <2>4, ReadSteps DEF TypeOK
    <3> QED  BY <2>1, <3>1
  <2>5. CASE Dials
    <3>1. UNCHANGED <<error, run, media>>
      BY <2>5 DEF Dials
    <3>2. UNCHANGED pump \/ pump'.at = "joining"
      BY <1>2, <2>5 DEF Dials, TypeOK
    <3>3. pump.at = "none"
      BY <1>2, <2>5 DEF Dials, Stopping
    <3> QED  BY <2>1, <3>1, <3>2, <3>3
  <2>6. CASE Opens \/ FirstPacket \/ StartCloses \/ StopsMedia \/ ClosesMedia \/ Using
               \/ Environment \/ UNCHANGED vars
    <3>1. UNCHANGED <<error, run, pump>>
      BY <2>6 DEF Opens, FirstPacket, StartCloses, StopsMedia, ClosesMedia, Using, Locks, Uses,
                  BindsStream, Environment, BusPosts, StartCancelled, vars
    <3>2. media => media'
      BY <2>6 DEF Opens, FirstPacket, StartCloses, StopsMedia, ClosesMedia, Using, Locks, Uses,
                  BindsStream, Environment, BusPosts, StartCancelled, vars
    <3> QED  BY <2>1, <3>1, <3>2
  <2> QED  BY <1>2, <2>2, <2>3, <2>4, <2>5, <2>6 DEF Next, Starting, Pumping
<1> QED  BY <1>1, <1>2, TypeCorrect, AlwaysOwned, AlwaysFailing, PTL DEF Spec

-----------------------------------------------------------------------------

(* Every sender report carries the exact RTP time of its running time, for   *)
(* every rate up to a tick per unit, every offset and every word size.       *)
THEOREM ReportsAreExact == Spec => []ReportsExact
<1>1. Init => Reporting
  <2> SUFFICES ASSUME Init PROVE Reporting
    OBVIOUS
  <2>1. user.at = "no"
    BY DEF Init, NoUser
  <2> QED  BY <2>1 DEF Reporting
<1>2. ASSUME TypeOK, Reporting, [Next]_vars PROVE Reporting'
  <2>1. CASE UNCHANGED user
    BY <1>2, <2>1 DEF Reporting, RTPTime, Scaled
  <2>2. CASE Locks
    BY <2>2 DEF Locks, NoUser, Reporting
  <2>3. CASE Uses
    <3>1. CASE user' = NoUser
      BY <3>1 DEF NoUser, Reporting
    <3>2. ASSUME NEW s \in bound, NEW t \in Running,
                 user' = [at |-> "reported", sink |-> s, running |-> t, time |-> RTPTime(s, t)]
          PROVE  Reporting'
      <4>1. s \in Sink
        BY <1>2 DEF TypeOK
      <4>2. user'.sink = s /\ user'.running = t /\ user'.time = RTPTime(s, t)
        BY <3>2
      <4> QED  BY <4>1, <4>2 DEF Reporting
    <3> QED  BY <2>3, <3>1, <3>2 DEF Uses
  <2>4. ASSUME NEW r \in Reader, Read(r) PROVE UNCHANGED user
    BY <1>2, <2>4, ReadSteps
  <2>5. CASE ~Locks /\ ~Uses
    BY <1>2, <2>1, <2>4, <2>5
    DEF Next, Starting, Opens, FirstPacket, Dials, StartCloses, Pumping, PumpReturns, PumpChecked,
        StopsMedia, ClosesMedia, Using, BindsStream, Environment, BusPosts, StartCancelled, vars
  <2> QED  BY <2>2, <2>3, <2>5
<1>3. Reporting => ReportsExact
  BY RTPTimeExact DEF Reporting, ReportsExact
<1> QED  BY <1>1, <1>2, <1>3, TypeCorrect, PTL DEF Spec
=============================================================================
