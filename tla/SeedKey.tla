------------------------------ MODULE SeedKey -------------------------------
(***************************************************************************)
(* The seed generators and the key check of seed_key.cpp.  The XOR         *)
(* algorithm keeps its generator in a function-local static: one for the   *)
(* whole program, started at the same word after every reset.              *)
(***************************************************************************)
EXTENDS Words, Sequences

CONSTANTS
    Secrets,    \* values of secret_mask
    LfsrSeeds,  \* words an LfsrGenerator is constructed with
    MaxSeeds    \* bound: seeds generated, words drawn

ASSUME SeedConstants ==
    /\ Secrets \subseteq SUBSET Bits(32)
    /\ LfsrSeeds \subseteq SUBSET Bits(32)
    /\ MaxSeeds \in Nat

VARIABLES
    lfsr,       \* the static of generate_seed()
    issued,     \* history: the seeds given out since the reset, in order
    state,      \* LfsrGenerator::m_state
    drawn       \* words drawn from it

seedVars == <<lfsr, issued, state, drawn>>

\* 0xDEADBEEF
FirstWord == {0, 1, 2, 3, 5, 6, 7, 9, 10, 11, 12, 13, 15, 16, 18, 19, 21, 23, 25, 26, 27,
              28, 30, 31}

\* A register of zeros would stay one.
Constructed(seed) == IF seed = {} THEN {0} ELSE seed

SeedInit ==
    /\ lfsr = FirstWord
    /\ issued = <<>>
    /\ state \in { Constructed(s) : s \in LfsrSeeds }
    /\ drawn = 0

Step(w) ==
    LET a == Xor(w, ShiftLeft(w, 13, 32))
        b == Xor(a, ShiftRight(a, 17))
    IN  Xor(b, ShiftLeft(b, 5, 32))

\* Mutant: the register is not static.
GenerateSeedAfresh ==
    /\ Len(issued) < MaxSeeds
    /\ lfsr' = Step(FirstWord)
    /\ issued' = Append(issued, lfsr')
    /\ UNCHANGED <<state, drawn>>

GenerateSeed ==
    /\ Len(issued) < MaxSeeds
    /\ lfsr' = Step(lfsr)
    /\ issued' = Append(issued, lfsr')
    /\ UNCHANGED <<state, drawn>>

VerifyKey(secret, seed, key) == Xor(seed, secret) = key

\* 0xB4BCD35C
Feedback == {2, 3, 4, 6, 8, 9, 12, 14, 15, 18, 19, 20, 21, 23, 26, 28, 29, 31}

NextState(w) ==
    IF 0 \in w THEN Xor(ShiftRight(w, 1), Feedback) ELSE ShiftRight(w, 1)

LfsrNext ==
    /\ drawn < MaxSeeds
    /\ state' = NextState(state)
    /\ drawn' = drawn + 1
    /\ UNCHANGED <<lfsr, issued>>

SeedNext == GenerateSeed \/ LfsrNext

SeedSpec == SeedInit /\ [][SeedNext]_seedVars

-----------------------------------------------------------------------------
\* A generator never runs into zeros, which it would not leave again, and the key
\* to one seed answers another only once the generator has come round to the
\* word it started with.
SeedUsable ==
    /\ lfsr # {} /\ state # {}
    /\ \A i \in 1 .. Len(issued) : issued[i] # {}
    /\ \A secret \in Secrets : \A i, j \in 1 .. Len(issued) :
          i < j /\ VerifyKey(secret, issued[j], Xor(issued[i], secret)) => issued[j - i] = FirstWord
=============================================================================
