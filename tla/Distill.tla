------------------------------ MODULE Distill ------------------------------
(***************************************************************************)
(* The way of one key through error estimation, error correction,          *)
(* confirmation and privacy amplification (src/bin/modules/qkd-error-      *)
(* estimation, qkd-confirmation, qkd-privacy-amplification) on both sides. *)
(*                                                                         *)
(*   estimation:    Alice: positions and bits     Bob: his bits there      *)
(*   confirmation:  Alice: masks and parities     Bob: his parities        *)
(*   amplification: Alice: seed and shift                                  *)
(*                                                                         *)
(* A module takes a key up when both sides have it (KeySync); from then on *)
(* each side drops it or passes it on alone.  Keys are independent of each *)
(* other, but for averages: one key is followed.  Correction is Cascade,   *)
(* of which only the result is taken.                                      *)
(***************************************************************************)
EXTENDS Sides, Integers, Sequences, FiniteSets, SequencesExt

CONSTANTS
    Bytes,      \* bytes of the key that comes
    Tau,        \* <<bits, errors>> -> the bits times tau, rounded down
    Whole,      \* a reduction rate of 1.0; rates are parts of it
    Settings,   \* settings of the amplification, records of
                \* calculation, rate and security
    Rounds,     \* settings of the confirmation
    (* bounds of the exploration *)
    MaxErrors,     \* bits in which the keys differ
    MaxDisclosed,  \* bits disclosed in estimation and in correction
    MaxCalls,      \* calls of D-Bus clients
    MaxFails       \* sendings and receipts that fail

Bits == 1 .. Byte * Bytes

ASSUME SizeAssumption == Byte \in Nat \ {0} /\ Bytes \in Nat
ASSUME TauAssumption ==
    \A n \in 0 .. Byte * Bytes, e \in 0 .. MaxErrors : e <= n => Tau[<<n, e>>] \in 0 .. n
ASSUME SettingsAssumption ==
    /\ Whole \in Nat \ {0} /\ Rounds \subseteq Nat
    /\ \A c \in Settings : /\ c.calculation \in {"rate", "security"}
                           /\ c.rate \in 0 .. Whole /\ c.security \in Nat
ASSUME DistillBounds ==
    MaxErrors \in Nat /\ MaxDisclosed \in Nat /\ MaxCalls \in Nat /\ MaxFails \in Nat

Zero == 0       \* a bit of a key that is constant

VARIABLES
    keyAt,     \* side -> where the key is
    key,       \* side -> its bits, by their numbers in the key that came
    wrong,     \* the bits in which Alice and Bob differ
    keyNet,    \* side -> message on its way to it, if any
    meta,      \* disclosed bits and errors, the same on both sides (Cascade)
    rounds,    \* side -> nRounds of the confirmation
    verdict,   \* side -> what the confirmation has come to
    setting,   \* side -> eCalculationProcedure, nReductionRate, nSecurityBits
    read,      \* side -> what process() has read of them so far
    beyond,    \* does the word behind the list's end hold its size?  (One
               \* build on both sides.)
    disclosed, missed, inForce,   \* history: bits disclosed; a difference not
               \* seen by the parities; settings in force while read
    keySets, fails                \* bounds

distillVars == <<keyAt, key, wrong, keyNet, meta, rounds, verdict, setting, read,
                 beyond, disclosed, missed, inForce, keySets, fails>>
tuned == <<rounds, setting, beyond, inForce, keySets, fails>>

DistillInit ==
    /\ keyAt = [s \in Side |-> "estimation"] /\ keyNet = [s \in Side |-> <<>>]
    /\ key = [s \in Side |-> [i \in Bits |-> i]]
    /\ wrong \in {W \in SUBSET Bits : Cardinality(W) <= MaxErrors}
    /\ meta = [disclosed |-> 0, errors |-> 0]
    /\ rounds \in [Side -> Rounds] /\ setting \in [Side -> Settings]
    /\ verdict = [s \in Side |-> "none"] /\ read = [s \in Side |-> <<>>]
    /\ beyond \in BOOLEAN /\ disclosed = {} /\ missed = FALSE
    /\ inForce = [s \in Side |-> {}] /\ keySets = 0 /\ fails = 0

(* Both sides have the key: their modules take it up. *)
TakeUp ==
    /\ \E stage \in {"estimation", "confirmation", "amplification"} :
         /\ keyAt = [s \in Side |-> stage]
         /\ keyAt' = [s \in Side |-> CASE stage = "estimation" -> "estimate"
                                    [] stage = "confirmation" -> "confirm"
                                    [] OTHER -> "size"]
         /\ inForce' = IF stage = "amplification" THEN [s \in Side |-> {setting[s]}] ELSE inForce
    /\ keyNet' = [s \in Side |-> <<>>]
    /\ UNCHANGED <<key, wrong, meta, rounds, verdict, setting, read, beyond, disclosed, missed,
                   keySets, fails>>

-----------------------------------------------------------------------------
(* Error estimation.                                                       *)

Padded(k) == k \o [i \in 1 .. ((Byte - (Len(k) % Byte)) % Byte) |-> Zero]

(* The bits that are not disclosed, moved together.  When the positions    *)
(* are used up the loop compares on with what is behind the list: with its *)
(* size, in a build where it is kept there.  The bit at this position is   *)
(* then left out as well, and the last of the new key is never written.    *)
ExtractedUnshifted(k, D, past) ==
    Padded([i \in 1 .. Len(k) - Cardinality(D) |-> k[i]])   \* faulty

Extracted(k, D, past) ==
    LET n == Cardinality(D)
        over == IF past /\ D = 1 .. n THEN {n + 1} ELSE {}
        Kept == DOMAIN k \ (D \cup over)
        nth(j) == CHOOSE i \in Kept : Cardinality({h \in Kept : h <= i}) = j
    IN  Padded([j \in 1 .. Len(k) - n |-> IF j <= Cardinality(Kept) THEN k[nth(j)] ELSE Zero])

AliceDiscloses ==
    /\ keyAt["alice"] = "estimate"
    /\ \E D \in {X \in SUBSET DOMAIN key["alice"] : Cardinality(X) <= MaxDisclosed} :
         /\ keyNet' = [keyNet EXCEPT !["bob"] = <<D>>] /\ disclosed' = D
    /\ keyAt' = [keyAt EXCEPT !["alice"] = "estimating"]
    /\ UNCHANGED <<key, wrong, meta, verdict, read, missed, tuned>>

BobDiscloses ==
    /\ keyAt["bob"] = "estimate" /\ keyNet["bob"] # <<>>
    /\ keyNet' = [alice |-> <<"bits">>, bob |-> <<>>]
    /\ key' = [key EXCEPT !["bob"] = Extracted(@, Head(keyNet["bob"]), beyond)]
    /\ keyAt' = [keyAt EXCEPT !["bob"] = "correction"]
    /\ UNCHANGED <<wrong, meta, verdict, read, disclosed, missed, tuned>>

AliceEstimates ==
    /\ keyAt["alice"] = "estimating" /\ keyNet["alice"] # <<>>
    /\ keyNet' = [keyNet EXCEPT !["alice"] = <<>>]
    /\ key' = [key EXCEPT !["alice"] = Extracted(@, disclosed, beyond)]
    /\ keyAt' = [keyAt EXCEPT !["alice"] = "correction"]
    /\ UNCHANGED <<wrong, meta, verdict, read, disclosed, missed, tuned>>

(* Cascade: some errors are corrected, both sides count alike. *)
Correct ==
    /\ keyAt = [s \in Side |-> "correction"] /\ keyAt' = [s \in Side |-> "confirmation"]
    /\ \E W \in SUBSET (wrong \cap ToSet(key["bob"])), n \in 0 .. MaxDisclosed :
         /\ wrong' = W
         /\ meta' = [disclosed |-> n, errors |-> Cardinality((wrong \cap ToSet(key["bob"])) \ W)]
    /\ UNCHANGED <<key, keyNet, verdict, read, disclosed, missed, tuned>>

-----------------------------------------------------------------------------
(* Confirmation.                                                           *)

(* Of a key that differs in some bits the parities differ or not, as the   *)
(* masks are drawn; with no rounds there are none.                         *)
AliceAsks ==
    /\ keyAt["alice"] = "confirm"
    /\ \E seen \in IF wrong # {} /\ rounds["alice"] > 0 THEN BOOLEAN ELSE {FALSE} :
         /\ keyNet' = [keyNet EXCEPT !["bob"] = <<[rounds |-> rounds["alice"], seen |-> seen]>>]
         /\ missed' = (wrong # {} /\ ~seen)
    /\ keyAt' = [keyAt EXCEPT !["alice"] = "confirming"]
    /\ UNCHANGED <<key, wrong, meta, verdict, read, disclosed, tuned>>

Judge(s, seen) ==
    /\ verdict' = [verdict EXCEPT ![s] = IF seen THEN "bad" ELSE "confirmed"]
    /\ keyAt' = [keyAt EXCEPT ![s] = IF seen THEN "dropped" ELSE "amplification"]

(* Faulty: Bob answers only if the parities are equal. *)
BobConfirmsSilently ==
    /\ keyAt["bob"] = "confirm" /\ keyNet["bob"] # <<>>
    /\ LET m == Head(keyNet["bob"])
       IN  /\ rounds' = [rounds EXCEPT !["bob"] = m.rounds]
           /\ Judge("bob", m.seen)
           /\ keyNet' = [alice |-> IF m.seen THEN <<>> ELSE <<[seen |-> m.seen]>>, bob |-> <<>>]
    /\ UNCHANGED <<key, wrong, meta, read, disclosed, missed, setting, beyond, inForce, keySets,
                   fails>>

BobConfirms ==
    /\ keyAt["bob"] = "confirm" /\ keyNet["bob"] # <<>>
    /\ LET m == Head(keyNet["bob"])
       IN  /\ rounds' = [rounds EXCEPT !["bob"] = m.rounds]
           /\ Judge("bob", m.seen)
           /\ keyNet' = [alice |-> <<[seen |-> m.seen]>>, bob |-> <<>>]
    /\ UNCHANGED <<key, wrong, meta, read, disclosed, missed, setting, beyond, inForce, keySets,
                   fails>>

AliceConfirms ==
    /\ keyAt["alice"] = "confirming" /\ keyNet["alice"] # <<>>
    /\ Judge("alice", Head(keyNet["alice"]).seen)
    /\ keyNet' = [keyNet EXCEPT !["alice"] = <<>>]
    /\ UNCHANGED <<key, wrong, meta, read, disclosed, missed, tuned>>

-----------------------------------------------------------------------------
(* Privacy amplification.                                                  *)

(* process() reads the settings one by one, each under a lock of its own:  *)
(* security bits, rate, calculation, and the rate again.                   *)
ReadSetting(s) ==
    /\ keyAt[s] = "size" /\ Len(read[s]) < 4
    /\ read' = [read EXCEPT ![s] = Append(@, CASE Len(@) = 0 -> setting[s].security
                                               [] Len(@) = 2 -> setting[s].calculation
                                               [] OTHER -> setting[s].rate)]
    /\ UNCHANGED <<keyAt, key, wrong, keyNet, meta, verdict, disclosed, missed, tuned>>

(* The size of the final key in bits, 0 if it is to be dropped.  A size    *)
(* that comes out below 0 is a number far too big, which is found out.     *)
Reduced(n, rate) == (n * rate) \div Whole
Secured(n, security) ==
    LET size == Tau[<<n, meta.errors>>] - meta.disclosed - security
    IN  IF meta.disclosed + security >= n \/ size < 0 THEN 0 ELSE size

SizeRead(s) ==
    LET n == Len(key[s])
    IN  IF read[s][3] = "security" THEN Secured(n, read[s][1])
        ELSE IF read[s][2] = Whole THEN n ELSE Reduced(n, read[s][4])

(* What a setting says, if all of it is taken as it was at one moment. *)
SizeSet(n, c) == IF c.calculation = "rate" THEN Reduced(n, c.rate) ELSE Secured(n, c.security)

Sized(s) ==
    /\ keyAt[s] = "size" /\ Len(read[s]) = 4
    /\ keyAt' = [keyAt EXCEPT ![s] = IF SizeRead(s) = 0 THEN "dropped" ELSE "sized"]
    /\ UNCHANGED <<key, wrong, keyNet, meta, verdict, read, disclosed, missed, tuned>>

(* perform(): the hash of the key by seed and shift, of the shift's bytes. *)
Hash(k, bytes) == [of |-> k, bytes |-> bytes]

AliceAmplifies ==
    /\ keyAt["alice"] = "sized"
    /\ LET bytes == SizeRead("alice") \div Byte
       IN  /\ keyNet' = [keyNet EXCEPT !["bob"] = <<[seed |-> Len(key["alice"]), shift |-> bytes]>>]
           /\ key' = [key EXCEPT !["alice"] = Hash(@, bytes)]
    /\ keyAt' = [keyAt EXCEPT !["alice"] = "final"]
    /\ UNCHANGED <<wrong, meta, verdict, read, disclosed, missed, tuned>>

(* Faulty: the sizes are not checked, and Bob's own is taken. *)
BobAmplifiesUnchecked ==
    /\ keyAt["bob"] = "sized" /\ keyNet["bob"] # <<>>
    /\ keyAt' = [keyAt EXCEPT !["bob"] = "final"]
    /\ key' = [key EXCEPT !["bob"] = Hash(@, SizeRead("bob") \div Byte)]
    /\ keyNet' = [keyNet EXCEPT !["bob"] = <<>>]
    /\ UNCHANGED <<wrong, meta, verdict, read, disclosed, missed, tuned>>

BobAmplifies ==
    /\ keyAt["bob"] = "sized" /\ keyNet["bob"] # <<>>
    /\ LET m == Head(keyNet["bob"])
       IN  \/ /\ m.seed = Len(key["bob"]) /\ m.shift = SizeRead("bob") \div Byte
              /\ keyAt' = [keyAt EXCEPT !["bob"] = "final"]
              /\ key' = [key EXCEPT !["bob"] = Hash(@, m.shift)]
           \/ /\ m.seed # Len(key["bob"]) \/ m.shift # SizeRead("bob") \div Byte
              /\ keyAt' = [keyAt EXCEPT !["bob"] = "dropped"] /\ UNCHANGED key
    /\ keyNet' = [keyNet EXCEPT !["bob"] = <<>>]
    /\ UNCHANGED <<wrong, meta, verdict, read, disclosed, missed, tuned>>

-----------------------------------------------------------------------------
(* A sending or a receipt fails: the key is dropped, on this side.  With   *)
(* the sending of Bob's parities his verdict is lost with the key, but he  *)
(* has taken over Alice's rounds.                                          *)
Fail(s) ==
    /\ fails < MaxFails /\ fails' = fails + 1
    /\ keyAt[s] \in {"estimate", "estimating", "confirm", "confirming", "sized"}
    /\ keyAt' = [keyAt EXCEPT ![s] = "dropped"]
    /\ \/ UNCHANGED rounds
       \/ /\ s = "bob" /\ keyAt[s] = "confirm" /\ keyNet[s] # <<>>
          /\ rounds' = [rounds EXCEPT ![s] = Head(keyNet[s]).rounds]
    /\ UNCHANGED <<key, wrong, keyNet, meta, verdict, setting, read, beyond, disclosed, missed,
                   inForce, keySets>>

(* D-Bus clients, on one side: each call sets one value and, with it, the  *)
(* calculation.                                                            *)
SetReduction(s) ==
    /\ keySets < MaxCalls /\ keySets' = keySets + 1
    /\ \E c \in Settings :
         \/ setting' = [setting EXCEPT ![s].rate = c.rate, ![s].calculation = "rate"]
         \/ setting' = [setting EXCEPT ![s].security = c.security, ![s].calculation = "security"]
    /\ inForce' = [inForce EXCEPT ![s] = @ \cup {setting'[s]}]
    /\ UNCHANGED <<keyAt, key, wrong, keyNet, meta, rounds, verdict, read, beyond, disclosed,
                   missed, fails>>

SetRounds(s) ==
    /\ keySets < MaxCalls /\ keySets' = keySets + 1
    /\ \E n \in Rounds : rounds' = [rounds EXCEPT ![s] = n]
    /\ UNCHANGED <<keyAt, key, wrong, keyNet, meta, verdict, setting, read, beyond, disclosed,
                   missed, inForce, fails>>

DistillWorker ==
    \/ TakeUp \/ Correct
    \/ AliceDiscloses \/ BobDiscloses \/ AliceEstimates
    \/ AliceAsks \/ BobConfirms \/ AliceConfirms
    \/ AliceAmplifies \/ BobAmplifies
    \/ \E s \in Side : ReadSetting(s) \/ Sized(s)

DistillNext == DistillWorker \/ \E s \in Side : Fail(s) \/ SetReduction(s) \/ SetRounds(s)

(* The worker threads run. *)
DistillSpec == DistillInit /\ [][DistillNext]_distillVars /\ WF_distillVars(DistillWorker)

-----------------------------------------------------------------------------
(* A key that is final on both sides is one key: the same bits, hashed to  *)
(* the same size, whatever was disclosed, set on one side only, or lost on *)
(* the way, unless the confirmation has missed a difference.  And it is    *)
(* never final at Bob alone, who goes by what Alice has sent.  What Alice  *)
(* has confirmed, or found bad, so has Bob, whatever rounds each has set.  *)
OneFinalKey ==
    /\ verdict["alice"] # "none" => verdict["bob"] = verdict["alice"]
    /\ keyAt["bob"] = "final" => keyAt["alice"] = "final"
    /\ keyAt = [s \in Side |-> "final"] /\ ~missed =>
         /\ key["alice"] = key["bob"]
         /\ ToSet(key["alice"].of) \cap wrong = {}

(* After the estimation no disclosed bit is in the key of either side, and *)
(* both have moved the others to the same places.                          *)
DisclosedGone ==
    /\ \A s \in Side : keyAt[s] \in {"correction", "confirmation"} =>
         disclosed \cap ToSet(key[s]) = {}
    /\ keyAt = [s \in Side |-> "correction"] => key["alice"] = key["bob"]

(* Without failures and with equal settings the key comes to the same end  *)
(* on both sides: final or dropped, and neither waits for ever.            *)
OneEnd ==
    setting["alice"] = setting["bob"] /\ [](fails = 0 /\ keySets = 0) =>
        <>(keyAt["alice"] = keyAt["bob"] /\ keyAt["alice"] \in {"final", "dropped"})

(* qkd-privacy-amplification.h:129, "the size of the key is shrunk by this *)
(* rate value": the size is that of a setting that was in force.           *)
AmplifiedAsSet ==
    keyAt["alice"] = "final" =>
        \E c \in inForce["alice"] :
            key["alice"].bytes = SizeSet(Len(key["alice"].of), c) \div Byte

(* qkd-error-estimation.h:49, "The disclosed keybits are discarded": those *)
(* and no other.                                                           *)
OthersKept ==
    \A s \in Side : keyAt[s] = "correction" =>
        \A b \in Bits : b \in disclosed \/ b \in ToSet(key[s])
=============================================================================
