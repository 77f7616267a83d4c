------------------------------ MODULE Processor ------------------------------
(***************************************************************************)
(* What the processor can do (src/cpu.c), and the two places that choose   *)
(* functions by it: the tables that are prepared for a key                 *)
(* (src/cipher.c) and the scores that read them (src/score.c).             *)
(***************************************************************************)

\* What a processor may have, and the system's support of its wide registers
Hardware == [ssse3 : BOOLEAN, avx : BOOLEAN, avx2 : BOOLEAN,
             osxsave : BOOLEAN, ymm_state : BOOLEAN]

\* The instruction that asks for the state of the registers is there only if
\* the system has said it uses it; the test before it takes AVX for enough.
xgetbv_faults(hw) == hw.avx /\ ~ hw.osxsave

get_hardware_supported_cpu_flags(hw) ==
  LET wide == (hw.avx \/ hw.osxsave) /\ hw.ymm_state
  IN {flag \in {"ssse3", "avx", "avx2"} :
        CASE flag = "ssse3" -> hw.ssse3
          [] flag = "avx"   -> wide
          [] flag = "avx2"  -> wide /\ hw.avx2}

CipherInit(cpu) ==
  IF "avx2" \in cpu THEN "avx2"
  ELSE IF cpu \cap {"ssse3", "avx"} # {} THEN "ssse3" ELSE "basic"

enigma_score_init(cpu) ==
  IF "avx2" \in cpu THEN "avx2"
  ELSE IF "avx" \in cpu THEN "avx"
  ELSE IF "ssse3" \in cpu THEN "ssse3" ELSE "basic"
=============================================================================
