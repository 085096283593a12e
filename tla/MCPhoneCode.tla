----------------------------- MODULE MCPhoneCode -----------------------------
EXTENDS PhoneCode, TLC

MCSymmetry == Permutations(Proc) \cup Permutations(Inst)
=============================================================================
