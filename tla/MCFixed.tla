------------------------------ MODULE MCFixed ------------------------------
(***************************************************************************)
(* Words of 8, 16 and 24 bits for the 64, 128 and 192 bits of the code, and *)
(* a scale of 100.  The inputs lie around the scale, its halves and the     *)
(* three widths.                                                            *)
(***************************************************************************)
EXTENDS FixedPoint

Around(n) == {n - 1, n, n + 1}

MCWide ==
  {0} \cup Around(1) \cup Around(50) \cup Around(WAD) \cup Around(150) \cup Around(4096)
  \cup Around(U64_MAX * WAD) \cup Around(U64_MAX * WAD + 50) \cup Around(U128_MAX)
  \cup Around(U192_MAX \div WAD) \cup {U192_MAX - WAD, U192_MAX - 50, U192_MAX}
MCNarrow ==
  {0} \cup Around(1) \cup Around(99) \cup Around(110) \cup Around(U64_MAX) \cup Around(180)
  \cup Around(U128_MAX \div WAD) \cup {U128_MAX - 1, U128_MAX}
=============================================================================
