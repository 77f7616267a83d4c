---------------------------- MODULE DecoderLookup ----------------------------
(***************************************************************************)
(* The vectorised decoders do not look up the path through the wheels for  *)
(* every letter.  PrepareDecoderLookup (x86/cipherSsse3.c, cipherAvx2.c)   *)
(* splits the message in bites of 16 or 32 letters and makes one lookup    *)
(* for each stretch of a bite on which the middle and the left wheel rest; *)
(* the right wheel is a vector of offsets.  Next to this loop the model    *)
(* runs the machine, one key at a time.                                    *)
(***************************************************************************)
EXTENDS CipherPath, Processor, FiniteSetsExt

CONSTANTS
  Calls,       \* the key, the length of the message, and the flags of what the
               \* processor can do
  stbrett,     \* the plugboard
  ciphertext   \* the letters to decipher, at least a whole bite more than len

ASSUME LookupAssumption ==
  /\ \A call \in Calls :
       /\ call.key.model \in Models /\ call.key \in KeyOf(call.key.model)
       /\ call.key.ring.m < RingLimit(call.key.slot.m)
       /\ call.key.ring.r < RingLimit(call.key.slot.r)
       /\ call.len \in 3 .. 250     \* main refuses less and cuts off more
       /\ call.cpu \in SUBSET {"ssse3", "avx", "avx2"}
  /\ stbrett \in [Letter -> Letter] /\ ciphertext \in [0 .. 255 -> Letter]

Keys    == {call.key : call \in Calls}
Lengths == {call.len : call \in Calls}
Cpus    == {call.cpu : call \in Calls}

MaxLookups == 24     \* the limit of the loop and of the arrays

\* The tables the scores read.  The AVX functions decode by the narrow ones.
DecodesBy(sf) == IF sf = "avx" THEN "ssse3" ELSE sf

Bite(simd) == IF simd = "avx2" THEN 32 ELSE 16

VARIABLES
  key, len, cpu,
  rings,            \* rings: wheels at the first letter of lookup i
  rAtFirstPos,      \* right wheel at the first letter of the bite
  messagePosition,
  lookups,          \* the lookups made: wheels and mask; path_lookup: wheels
  nextBite,
  running,          \* the lookups are being made
  currentRRingOffset, messageBite, lookupNumber,    \* of the decoder
  plain,            \* the letters deciphered last
  machine           \* the wheels, key by key, at the first letter of the
                    \* lookup being made or of plain

prepared == << key, len, cpu, rings, rAtFirstPos, messagePosition, lookups,
               nextBite, running >>
decoded  == << currentRRingOffset, messageBite, lookupNumber, plain >>
vars == << prepared, decoded, machine >>

simd  == CipherInit(cpu)
turns == Turnovers(key)
size  == Bite(simd)
start == StepAllRings(Offsets(key), turns)

\* Offsets of the right wheel in the lanes of the first bite
CalculateRRingOffets(r) ==
  LET second == IF r + 16 >= 26 THEN r + 16 - 26 ELSE r + 16
      sum(k) == IF k < 16 THEN r + k ELSE second + k - 16
  IN [k \in 0 .. size - 1 |-> IF sum(k) >= 26 THEN sum(k) - 26 ELSE sum(k)]

Init ==
  /\ \E call \in Calls : key = call.key /\ len = call.len /\ cpu = call.cpu
  /\ rings = start
  /\ rAtFirstPos = start.r
  /\ messagePosition = 0
  /\ lookups = << >> /\ nextBite = << >>
  /\ running = TRUE
  /\ currentRRingOffset = CalculateRRingOffets(start.r)
  /\ messageBite = 0 /\ lookupNumber = 0 /\ plain = << >>
  /\ machine = start

charsToNextTurnover == echar_delta_sub(GetNextTurnover(rings, turns), rings.r) + 1
inBite == messagePosition % size
bitesLimit == (len + size - 1) \div size

\* n keys later
Pressed(n) ==
  LET after[j \in 0 .. n] == IF j = 0 THEN machine ELSE StepAllRings(after[j - 1], turns)
  IN after[n]

\* Mutant: the mask includes its end.
MutantLookup(begin, end) ==
  /\ running
  /\ lookups' = Append(lookups, [m |-> rings.m, l |-> rings.l,
                                 begin |-> begin, end |-> end + 1])

Lookup(begin, end) ==
  /\ running
  /\ lookups' = Append(lookups, [m |-> rings.m, l |-> rings.l,
                                 begin |-> begin, end |-> end])

\* The middle wheel turns within the bite.
TurnoverInBite ==
  /\ simd # "basic"
  /\ inBite + charsToNextTurnover < size
  /\ Lookup(inBite, (messagePosition + charsToNextTurnover) % size)
  /\ messagePosition' = messagePosition + charsToNextTurnover
  /\ rings' = StepAllRings([rings EXCEPT !.r = GetNextTurnover(rings, turns)], turns)
  /\ running' = (Len(lookups') < MaxLookups)
  /\ machine' = Pressed(charsToNextTurnover)
  /\ UNCHANGED << key, len, cpu, rAtFirstPos, nextBite, decoded >>

\* The right wheel alone moves to the end of the bite.  (Behind the last bite
\* the code breaks off before this step; nothing reads rings any more.)
EndOfBite ==
  /\ simd # "basic"
  /\ inBite + charsToNextTurnover >= size
  /\ Lookup(inBite, size)
  /\ messagePosition' = messagePosition + size - inBite
  /\ rAtFirstPos' = (rAtFirstPos + size) % 26
  /\ rings' = StepAllRings([rings EXCEPT !.r = (rAtFirstPos + size - 1) % 26], turns)
  /\ nextBite' = Append(nextBite, Len(lookups'))
  /\ running' = (Len(nextBite') < bitesLimit /\ Len(lookups') < MaxLookups)
  /\ machine' = Pressed(size - inBite)
  /\ UNCHANGED << key, len, cpu, decoded >>

\* Without vectors: the wheels of every letter.
init_path_lookup ==
  /\ simd = "basic" /\ running
  /\ LET after[i \in 0 .. len] == IF i = 0 THEN Offsets(key)
                                ELSE StepAllRings(after[i - 1], turns)
     IN /\ lookups' = [i \in 1 .. len |-> after[i]]
        /\ rings' = after[len]
  /\ running' = FALSE
  /\ UNCHANGED << key, len, cpu, rAtFirstPos, messagePosition, nextBite, decoded,
                 machine >>

decode(i) ==
  LET c == stbrett[ciphertext[i]]
  IN stbrett[IF key.model = "M4" THEN path_lookup_ALL(key, lookups[i + 1], c)
             ELSE path_lookup_H_M3(key, lookups[i + 1], c)]

Unprepared == 26     \* what is read from tables nobody has filled

DecodeMessage ==
  /\ simd = "basic" /\ ~ running /\ plain = << >>
  /\ plain' = [i \in 0 .. len - 1 |->
                IF DecodesBy(enigma_score_init(cpu)) = simd THEN decode(i) ELSE Unprepared]
  /\ UNCHANGED << prepared, currentRRingOffset, messageBite, lookupNumber, machine >>

\* The part of a bite one lookup is for, the other lanes zero
DecodeBiteMaskedPart(predecoded, lookup, lane) ==
  LET mapping == [c \in Letter |->
        IF key.model = "M4" THEN CalculatePermutationMap4Rotors(key, lookup, c)
                            ELSE CalculatePermutationMap3Rotors(key, lookup, c)]
  IN IF lookup.begin <= lane /\ lane < lookup.end
     THEN PermuteVec(mapping, predecoded) ELSE 0

\* nextBite of a bite.  Behind the last bite that was prepared, the array still
\* holds what the loop has stored for an earlier key, which had made at least
\* one lookup for each bite, or the zero it has held from the start.
NextBite(bite) ==
  IF bite <= Len(nextBite) THEN {nextBite[bite]} ELSE {0} \cup bite .. MaxLookups

\* One lane, by the lookups up to the next bite: the parts are joined.
DecodeLane(lane, next, letter, offset) ==
  LET predecoded == ThroughRight(wal[key.slot.r], PermuteVec(stbrett, letter), offset)
      part  == [n \in lookupNumber + 1 .. next |->
                  DecodeBiteMaskedPart(predecoded, lookups[n], lane)]
      cBite == SumFunction(part)
  IN PermuteVec(stbrett, ThroughRight(rev_wal[key.slot.r], cBite, offset))

\* Every bite of the message, prepared or not.  One without a lookup, or with
\* more than there are cases for, ends the program.
DecodeBite ==
  /\ simd # "basic" /\ ~ running /\ messageBite < bitesLimit
  /\ \E next \in NextBite(messageBite + 1) :
       /\ next - lookupNumber \in 1 .. (IF simd = "avx2" THEN 5 ELSE 4)
       /\ lookupNumber' = next
       /\ plain' = [lane \in 0 .. size - 1 |->
            IF DecodesBy(enigma_score_init(cpu)) = simd
            THEN DecodeLane(lane, next, ciphertext[size * messageBite + lane],
                            currentRRingOffset[lane])
            ELSE Unprepared]
  /\ messageBite' = messageBite + 1
  /\ currentRRingOffset' = [lane \in 0 .. size - 1 |->
                              AddMod26(currentRRingOffset[lane], size % 26)]
  /\ machine' = IF messageBite = 0 THEN start ELSE Pressed(size)
  /\ UNCHANGED prepared

Next == TurnoverInBite \/ EndOfBite \/ init_path_lookup \/ DecodeMessage \/ DecodeBite

Spec == Init /\ [][Next]_vars

-----------------------------------------------------------------------------
(* Properties.                                                             *)

Wheels == [r : Letter, m : Letter, l : Letter]

TypeOK ==
  /\ key \in Keys /\ len \in Lengths /\ cpu \in Cpus
  /\ rings \in Wheels /\ machine \in Wheels /\ rAtFirstPos \in Letter
  /\ messagePosition \in 0 .. 256
  /\ Len(lookups) <= (IF simd = "basic" THEN len ELSE MaxLookups)
  /\ Len(nextBite) <= Len(lookups) /\ messageBite \in 0 .. bitesLimit
  /\ lookupNumber \in 0 .. MaxLookups
  /\ currentRRingOffset \in [0 .. size - 1 -> Letter]
  /\ running \in BOOLEAN

\* Jumping from turnover to turnover loses no movement of any wheel: at
\* every lookup the wheels are where the machine has them, also through
\* double steps and at the borders of bites.
InStepWithMachine ==
  running /\ simd # "basic" =>
    /\ rings = machine
    /\ rAtFirstPos = (start.r + size * Len(nextBite)) % 26

\* A lookup is used for exactly the letters it holds for: at the last letter
\* under its mask, the middle and the left wheel are where they were at the
\* first.  (A bite is too short for them to have gone round.)
LookupHoldsUnderMask ==
  running /\ simd # "basic" =>
    LET last == IF inBite + charsToNextTurnover < size
                THEN charsToNextTurnover - 1 ELSE size - inBite - 1
    IN Pressed(last).m = rings.m /\ Pressed(last).l = rings.l

LookupsOf(bite) ==
  (IF bite = 1 THEN 1 ELSE nextBite[bite - 1] + 1) .. nextBite[bite]

\* The masks of the last bite share out its letters, each to one lookup, and there
\* are never more of them than the decoder has cases for.
MasksPartitionBite ==
  LET bite == Len(nextBite)
  IN bite > 0 =>
       /\ \A c \in 0 .. size - 1 :
            Cardinality({n \in LookupsOf(bite) :
                           lookups[n].begin <= c /\ c < lookups[n].end}) = 1
       /\ Cardinality(LookupsOf(bite)) \in 1 .. (IF simd = "avx2" THEN 5 ELSE 4)

\* The slow wheel moves when scrambler_state says it does: before the first
\* letter, later within the message, or not at all.  The first and second
\* kind are the default search and its -x complement.
SlowWheelForecast ==
  LET pressed == messagePosition + 1
      moved   == machine.l # key.mesg.l
  IN running => scrambler_state(key, pressed) =
                  IF start.l # key.mesg.l THEN "SW_ONSTART"
                  ELSE IF moved THEN "SW_OTHER" ELSE "SW_NONE"

\* The default search and the -x search share no key, and between them skip
\* none the -a search tries.
SearchesComplement ==
  LET skips(mode) == scrambler_state_is_endloop(mode, key, len)
  IN /\ skips("SW_ONSTART") \/ skips("SW_OTHER")
     /\ skips("SW_ALL") = (skips("SW_ONSTART") /\ skips("SW_OTHER"))
     /\ ~ skips("SINGLE_KEY")

\* The letters that 24 lookups are always enough for
LettersPrepared == IF simd = "avx2" THEN 192 ELSE 160

\* Whatever tables are used, a letter is deciphered as the machine would: with
\* the plugboard, all wheels and the reflector as the keys pressed have left
\* them.  (The last bite is deciphered to its end, behind the message.)  It is
\* so in every message of up to 160 letters, or 192 by the wide tables, and in
\* a longer one up to the last bite that was prepared; the bites behind it are
\* deciphered by what nextBite happens to hold.
DecodedAsMachine ==
  LET first == IF simd = "basic" THEN 0 ELSE size * (messageBite - 1)
  IN len <= LettersPrepared \/ messageBite <= Len(nextBite) =>
       \A c \in DOMAIN plain :
         plain[c] = Enigma(key, stbrett, Pressed(c), ciphertext[first + c])

\* Once it has run, the loop has prepared every bite of the message.
AllBitesPrepared ==
  ~ running /\ simd # "basic" => Len(nextBite) = bitesLimit
=============================================================================
