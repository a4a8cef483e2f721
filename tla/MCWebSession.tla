---------------------------- MODULE MCWebSession ----------------------------
EXTENDS WebSession, TLC

IdSymmetry ==
  Permutations(Requests) \cup Permutations(Tokens) \cup Permutations(ResetTokens)

=============================================================================
