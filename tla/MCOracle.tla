------------------------------ MODULE MCOracle ------------------------------
(***************************************************************************)
(* A scaled down oracle: a price is stale after two slots, and 64 bits end   *)
(* at 99.  The reports contain every way in which one can be unusable.       *)
(***************************************************************************)
EXTENDS OraclePrice

Report(type, status, price, conf, expo) ==
  [ptype |-> type, status |-> status, price |-> price, conf |-> conf, expo |-> expo]

MCReports ==
  {Report("price", "trading", 10, 0, 0), Report("price", "trading", 20, 2, -1),
   Report("price", "trading", 10, 1, 1),
   Report("unknown", "trading", 10, 0, 0), Report("price", "halted", 10, 0, 0),
   Report("price", "trading", -1, 0, 0), Report("price", "trading", 0, 0, 0),
   Report("price", "trading", 10, 2, 0),    \* too wide
   Report("price", "trading", 10, 10, 0),   \* far too wide: ten times it overflows
   Report("price", "trading", 10, 0, 2)}    \* an exponent beyond 64 bits

MCAnswers == {-1, 3}

=============================================================================
