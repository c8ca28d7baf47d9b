-------------------------- MODULE MCSaltDerivation --------------------------
(* Addresses of two bytes, words of five, counters of three two-valued     *)
(* bytes: every counter, both threads, every prefix length; three hits at  *)
(* most for two records, which have a byte of padding.                     *)
EXTENDS SaltDerivation, TLC

CONSTANTS g1, g2

MCBaseSalts == <<g1, g2>>

=============================================================================
