----------------------------- MODULE MCMailStore -----------------------------
(***************************************************************************)
(* Small instances of MailStore for TLC: two goroutines of one process and *)
(* one of another.                                                         *)
(***************************************************************************)
EXTENDS MailStore, TLC

CONSTANTS c1, c2, w, imapd, worker

MCProcessOf == [c \in Clients |-> IF c = w THEN worker ELSE imapd]

Symmetry == Permutations({c1, c2} \cap Clients) \cup Permutations(Folders)

=============================================================================
