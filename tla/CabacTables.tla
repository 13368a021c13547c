----------------------------- MODULE CabacTables -----------------------------
(***************************************************************************)
(* The tables of HM's arithmetic coder (TComCABACTables.cpp and            *)
(* ContextModel.cpp) and the start of a context.  A context model is the   *)
(* number of m_ucState: twice its state, plus its more probable symbol.    *)
(***************************************************************************)
EXTENDS Integers, Sequences

Context == 0..127

(* The contexts regular bins are coded with; state 63 is left out. *)
CodingContext == 0..125

(* Powers of two as the shifts of 32-bit registers need them. *)
Pow2(k) == <<1, 2, 4, 8, 16, 32, 64, 128, 256, 512, 1024, 2048, 4096, 8192,
             16384, 32768, 65536, 131072, 262144, 524288, 1048576, 2097152,
             4194304, 8388608, 16777216, 33554432, 67108864, 134217728,
             268435456, 536870912, 1073741824>>[k + 1]

(* sm_aucLPSTable, by column: quarters of the range, from the lowest.      *)
sm_aucLPSTable_0 == <<
  128, 128, 128, 123, 116, 111, 105, 100, 95, 90, 85, 81, 77, 73, 69, 66,
  62, 59, 56, 53, 51, 48, 46, 43, 41, 39, 37, 35, 33, 32, 30, 29,
  27, 26, 24, 23, 22, 21, 20, 19, 18, 17, 16, 15, 14, 14, 13, 12,
  12, 11, 11, 10, 10, 9, 9, 8, 8, 7, 7, 7, 6, 6, 6, 2 >>

sm_aucLPSTable_1 == <<
  176, 167, 158, 150, 142, 135, 128, 122, 116, 110, 104, 99, 94, 89, 85, 80,
  76, 72, 69, 65, 62, 59, 56, 53, 50, 48, 45, 43, 41, 39, 37, 35,
  33, 31, 30, 28, 27, 26, 24, 23, 22, 21, 20, 19, 18, 17, 16, 15,
  14, 14, 13, 12, 12, 11, 11, 10, 9, 9, 9, 8, 8, 7, 7, 2 >>

sm_aucLPSTable_2 == <<
  208, 197, 187, 178, 169, 160, 152, 144, 137, 130, 123, 117, 111, 105, 100, 95,
  90, 86, 81, 77, 73, 69, 66, 63, 59, 56, 54, 51, 48, 46, 43, 41,
  39, 37, 35, 33, 32, 30, 29, 27, 26, 25, 23, 22, 21, 20, 19, 18,
  17, 16, 15, 15, 14, 13, 12, 12, 11, 11, 10, 10, 9, 9, 8, 2 >>

sm_aucLPSTable_3 == <<
  240, 227, 216, 205, 195, 185, 175, 166, 158, 150, 142, 135, 128, 122, 116, 110,
  104, 99, 94, 89, 85, 80, 76, 72, 69, 65, 62, 59, 56, 53, 50, 48,
  45, 43, 41, 39, 37, 35, 33, 31, 30, 28, 27, 25, 24, 23, 22, 21,
  20, 19, 18, 17, 16, 15, 14, 14, 13, 12, 12, 11, 11, 10, 9, 2 >>

(* The range of the less probable symbol, for an interval of that range. *)
LpsRange(context, range) ==
  LET state   == (context \div 2) + 1
      quarter == (range \div 64) % 4
  IN CASE quarter = 0 -> sm_aucLPSTable_0[state]
       [] quarter = 1 -> sm_aucLPSTable_1[state]
       [] quarter = 2 -> sm_aucLPSTable_2[state]
       [] quarter = 3 -> sm_aucLPSTable_3[state]

(* Shifts that bring an interval of the less probable symbol back to 256. *)
sm_aucRenormTable == <<6, 5, 4, 4, 3, 3, 3, 3, 2, 2, 2, 2, 2, 2, 2, 2,
                       1, 1, 1, 1, 1, 1, 1, 1, 1, 1, 1, 1, 1, 1, 1, 1>>

Renorm(lps) == sm_aucRenormTable[(lps \div 8) + 1]

m_aucNextStateMPS == <<
  2, 3, 4, 5, 6, 7, 8, 9, 10, 11, 12, 13, 14, 15, 16, 17,
  18, 19, 20, 21, 22, 23, 24, 25, 26, 27, 28, 29, 30, 31, 32, 33,
  34, 35, 36, 37, 38, 39, 40, 41, 42, 43, 44, 45, 46, 47, 48, 49,
  50, 51, 52, 53, 54, 55, 56, 57, 58, 59, 60, 61, 62, 63, 64, 65,
  66, 67, 68, 69, 70, 71, 72, 73, 74, 75, 76, 77, 78, 79, 80, 81,
  82, 83, 84, 85, 86, 87, 88, 89, 90, 91, 92, 93, 94, 95, 96, 97,
  98, 99, 100, 101, 102, 103, 104, 105, 106, 107, 108, 109, 110, 111, 112, 113,
  114, 115, 116, 117, 118, 119, 120, 121, 122, 123, 124, 125, 124, 125, 126, 127 >>

m_aucNextStateLPS == <<
  1, 0, 0, 1, 2, 3, 4, 5, 4, 5, 8, 9, 8, 9, 10, 11,
  12, 13, 14, 15, 16, 17, 18, 19, 18, 19, 22, 23, 22, 23, 24, 25,
  26, 27, 26, 27, 30, 31, 30, 31, 32, 33, 32, 33, 36, 37, 36, 37,
  38, 39, 38, 39, 42, 43, 42, 43, 44, 45, 44, 45, 46, 47, 48, 49,
  48, 49, 50, 51, 52, 53, 52, 53, 54, 55, 54, 55, 56, 57, 58, 59,
  58, 59, 60, 61, 60, 61, 60, 61, 62, 63, 64, 65, 64, 65, 66, 67,
  66, 67, 66, 67, 68, 69, 68, 69, 70, 71, 70, 71, 70, 71, 72, 73,
  72, 73, 72, 73, 74, 75, 74, 75, 74, 75, 76, 77, 76, 77, 126, 127 >>

Mps(context) == context % 2

UpdateMps(context) == m_aucNextStateMPS[context + 1]

UpdateLps(context) == m_aucNextStateLPS[context + 1]

Clip(low, high, v) == IF v < low THEN low ELSE IF v > high THEN high ELSE v

(* Mutant: the upper clip of the state is one too far. *)
InitContext_Unclipped(qp, initValue) ==
  LET slope  == (initValue \div 16) * 5 - 45
      offset == (initValue % 16) * 8 - 16
      state  == Clip(1, 127, (slope * Clip(0, 51, qp)) \div 16 + offset)
  IN IF state >= 64 THEN 2 * (state - 64) + 1 ELSE 2 * (63 - state)

(* ContextModel::init(). *)
InitContext(qp, initValue) ==
  LET slope  == (initValue \div 16) * 5 - 45
      offset == (initValue % 16) * 8 - 16
      state  == Clip(1, 126, (slope * Clip(0, 51, qp)) \div 16 + offset)
  IN IF state >= 64 THEN 2 * (state - 64) + 1 ELSE 2 * (63 - state)
=============================================================================
