------------------------- MODULE ConstraintsProofs -------------------------
(***************************************************************************)
(* What the derive macro of Anchor's accounts structs guarantees of the     *)
(* structs it accepts, for any number of fields, any number of keywords     *)
(* given in any order, and with or without the feature init-if-needed.      *)
(***************************************************************************)
EXTENDS AnchorConstraints, NaturalsInduction, WellFoundedInduction, TLAPS

(* What add makes sure of, whatever the order of the keywords. *)
Taken(g) ==
  /\ "token::mint" \in g => "associated_token::mint" \notin g
  /\ g \cap BumpTokens # {} => "seeds" \in g
  /\ "seeds::program" \in g => "seeds" \in g
  /\ "close" \in g => "mut" \in g

Field == [type : FieldTypes, group : {ConstraintGroup(g) : g \in SUBSET ConstraintToken},
          given : SUBSET ConstraintToken]

(* A field as build leaves it. *)
BuiltRight(f) ==
  /\ f.given \subseteq ConstraintToken /\ Taken(f.given) /\ Builds(f.given)
  /\ f.group = ConstraintGroup(f.given)

(* The inductive invariant. *)
IInv ==
  /\ given \subseteq ConstraintToken /\ Taken(given)
  /\ fields \in Seq(Field)
  /\ ty \in FieldTypes
  /\ \A i \in DOMAIN fields : BuiltRight(fields[i])
  /\ result = "generated" => CrossChecks(fields, struct) /\ CompositesGenerate(fields)

-----------------------------------------------------------------------------
(* What the keywords of a field become. *)

LEMMA AddKeeps ==
  ASSUME NEW g, NEW t \in ConstraintToken, NEW type, Taken(g), Add(g, t, type)
  PROVE  Taken(g \cup {t})
  <1>1. t = "token::mint" => AddTokenMint(g)
    BY DEF Add, InitTokens, BumpTokens
  <1>2. t = "associated_token::mint" => AddAssociatedTokenMint(g)
    BY DEF Add, InitTokens, BumpTokens
  <1>3. t \in BumpTokens => AddBump(g)
    BY DEF Add, InitTokens, BumpTokens
  <1>4. t = "seeds::program" => AddProgramSeed(g)
    BY DEF Add, InitTokens, BumpTokens
  <1>5. t = "close" => AddClose(g, type)
    BY DEF Add, InitTokens, BumpTokens
  <1>6. "token::mint" \in g \cup {t} => "associated_token::mint" \notin g \cup {t}
    BY <1>1, <1>2 DEF Taken, AddTokenMint, AddAssociatedTokenMint
  <1>7. (g \cup {t}) \cap BumpTokens # {} => "seeds" \in g \cup {t}
    BY <1>3 DEF Taken, AddBump
  <1>8. "seeds::program" \in g \cup {t} => "seeds" \in g \cup {t}
    BY <1>4 DEF Taken, AddProgramSeed
  <1>9. "close" \in g \cup {t} => "mut" \in g \cup {t}
    BY <1>5 DEF Taken, AddClose
  <1> QED
    BY <1>6, <1>7, <1>8, <1>9 DEF Taken

(* The keywords of a field with what build adds to them. *)
Completed(g) == UNION {g, ImpliedMut(g), ImpliedRent(g), ImpliedSigner(g)}
Own(g) == UNION {ConstraintOf(t) : t \in Completed(g)}

LEMMA GroupFields ==
  ASSUME NEW g
  PROVE  /\ ConstraintGroup(g).init = InitKind(g)
         /\ ConstraintGroup(g).constraints = Own(g) \cup SplConstraints(g)
  <1>1. ConstraintGroup(g).init = InitKind(g)
    BY DEF ConstraintGroup
  <1> DEFINE own == UNION {ConstraintOf(t) : t \in Completed(g)}
  <1>2. ConstraintGroup(g).constraints = own \cup SplConstraints(g)
    <2> DEFINE all == own \cup SplConstraints(g)
    <2>1. ConstraintGroup(g) = [init |-> InitKind(g), program_seed |-> "seeds::program" \in g,
                                constraints |-> all]
      BY Zenon DEF ConstraintGroup, Completed
    <2> HIDE DEF all
    <2>2. ConstraintGroup(g).constraints = all
      BY <2>1
    <2> QED
      BY <2>2 DEF all
  <1>3. Own(g) = own
    BY Zenon DEF Own
  <1> HIDE DEF own
  <1> QED
    BY <1>1, <1>2, <1>3

LEMMA Becomes ==
  ASSUME NEW g, NEW t \in Completed(g)
  PROVE  ConstraintOf(t) \subseteq ConstraintGroup(g).constraints
  <1>1. ConstraintOf(t) \subseteq Own(g)
    BY DEF Own
  <1> QED
    BY <1>1, GroupFields

LEMMA BecameOf ==
  ASSUME NEW g, NEW c \in ConstraintGroup(g).constraints
  PROVE  c \in SplConstraints(g) \/ \E t \in Completed(g) : c \in ConstraintOf(t)
  <1>1. c \in Own(g) \cup SplConstraints(g)
    BY GroupFields
  <1>2. ASSUME c \in Own(g)
        PROVE  \E t \in Completed(g) : c \in ConstraintOf(t)
    <2>1. PICK C \in {ConstraintOf(t) : t \in Completed(g)} : c \in C
      BY <1>2 DEF Own
    <2> QED
      BY <2>1
  <1> QED
    BY <1>1, <1>2

LEMMA CompletedHas ==
  ASSUME NEW g
  PROVE  /\ g \subseteq Completed(g)
         /\ HasInit(g) \/ "zero" \in g => "mut" \in Completed(g)
         /\ HasInit(g) /\ "seeds" \notin g /\ "associated_token::mint" \notin g
              => "signer" \in Completed(g)
  BY DEF Completed, ImpliedMut, ImpliedSigner

(* What a constraint on its own comes from. *)
LEMMA ComesFrom ==
  ASSUME NEW t
  PROVE  /\ "Init" \in ConstraintOf(t) => t \in InitTokens
         /\ "Zeroed" \in ConstraintOf(t) => t = "zero"
         /\ "Close" \in ConstraintOf(t) => t = "close"
  BY DEF ConstraintOf, InitTokens, RentTokens

LEMMA Single ==
  /\ ConstraintOf("mut") = {"Mut"} /\ ConstraintOf("signer") = {"Signer"}
  /\ ConstraintOf("seeds") = {"Seeds"}
  /\ \A t \in InitTokens : ConstraintOf(t) = {"Init"}
  BY DEF ConstraintOf, InitTokens, RentTokens

(* build adds no init, zero or close. *)
LEMMA AddedByBuild ==
  ASSUME NEW g, NEW t \in Completed(g), t \notin g
  PROVE  t \in {"mut", "rent_exempt = enforce", "signer"}
  BY DEF Completed, ImpliedMut, ImpliedRent, ImpliedSigner

LEMMA Written ==
  ASSUME NEW f, BuiltRight(f), f.group.constraints \cap {"Init", "Zeroed", "Close"} # {}
  PROVE  "Mut" \in f.group.constraints
  <1> DEFINE g == f.given
  <1>1. f.group = ConstraintGroup(g) /\ Taken(g)
    BY DEF BuiltRight
  <1>2. PICK c \in {"Init", "Zeroed", "Close"} : c \in ConstraintGroup(g).constraints
    BY <1>1
  <1>3. c \notin SplConstraints(g)
    <2>1. SplConstraints(g) \subseteq {"AssociatedToken", "TokenAccount", "Mint"}
      BY DEF SplConstraints
    <2> QED
      BY <2>1
  <1>4. PICK t \in Completed(g) : c \in ConstraintOf(t)
    BY <1>2, <1>3, BecameOf
  <1>5. t \in InitTokens \/ t = "zero" \/ t = "close"
    BY <1>4, ComesFrom
  <1>6. t \in g
    BY <1>5, AddedByBuild DEF InitTokens
  <1>7. "mut" \in Completed(g)
    BY <1>1, <1>5, <1>6, CompletedHas DEF HasInit, Taken
  <1>8. "Mut" \in ConstraintGroup(g).constraints
    BY <1>7, Becomes, Single
  <1> QED
    BY <1>1, <1>8

LEMMA Signed ==
  ASSUME NEW f, BuiltRight(f), f.group.init # "none"
  PROVE  f.group.constraints \cap {"Signer", "Seeds"} # {} \/ f.group.init = "AssociatedToken"
  <1> DEFINE g == f.given
  <1>1. f.group = ConstraintGroup(g) /\ Taken(g)
    BY DEF BuiltRight
  <1>2. f.group.init = InitKind(g)
    BY <1>1, GroupFields
  <1>3. HasInit(g)
    BY <1>2 DEF InitKind
  <1>4. CASE "seeds" \in g
    <2>1. "Seeds" \in ConstraintGroup(g).constraints
      BY <1>4, CompletedHas, Becomes, Single
    <2> QED
      BY <1>1, <2>1
  <1>5. CASE "associated_token::mint" \in g
    <2>1. InitKind(g) = "AssociatedToken"
      BY <1>1, <1>3, <1>5 DEF InitKind, Taken
    <2> QED
      BY <1>2, <2>1
  <1>6. CASE "seeds" \notin g /\ "associated_token::mint" \notin g
    <2>1. "Signer" \in ConstraintGroup(g).constraints
      BY <1>3, <1>6, CompletedHas, Becomes, Single
    <2> QED
      BY <1>1, <2>1
  <1> QED
    BY <1>4, <1>5, <1>6

LEMMA Paid ==
  ASSUME IInv, result = "generated", NEW f \in BuiltFields, f.group.init # "none"
  PROVE  "system_program" \in struct.programs /\ struct.payer \in {"mutable", "composite"}
  <1>1. PICK i \in DOMAIN fields : f = fields[i]
    BY DEF BuiltFields
  <1>2. BuiltRight(f) /\ CrossChecks(fields, struct) /\ CompositesGenerate(fields)
    BY <1>1 DEF IInv
  <1> DEFINE g == f.given
  <1>3. f.group = ConstraintGroup(g) /\ f.group.init = InitKind(g)
    BY <1>2, GroupFields DEF BuiltRight
  <1>4. PICK t \in g : t \in InitTokens
    BY <1>3 DEF InitKind, HasInit
  <1>5. "Init" \in f.group.constraints
    BY <1>3, <1>4, CompletedHas, Becomes, Single
  <1>6. f.type # "composite"
    BY <1>1, <1>2, <1>5 DEF CompositesGenerate
  <1>7. InitFields(fields) # {}
    BY <1>1, <1>6 DEF InitFields
  <1> QED
    BY <1>2, <1>7 DEF CrossChecks, PayerBuilds
-----------------------------------------------------------------------------
(* What is lost of the keywords. *)

LEMMA SplChecked ==
  ASSUME NEW g, ~HasInit(g)
  PROVE  /\ g \cap TokenTokens # {} => "TokenAccount" \in ConstraintGroup(g).constraints
         /\ g \cap MintTokens # {} => "Mint" \in ConstraintGroup(g).constraints
         /\ "associated_token::mint" \in g
              => "AssociatedToken" \in ConstraintGroup(g).constraints
  <1>1. /\ g \cap TokenTokens # {} => "TokenAccount" \in SplConstraints(g)
        /\ g \cap MintTokens # {} => "Mint" \in SplConstraints(g)
        /\ "associated_token::mint" \in g => "AssociatedToken" \in SplConstraints(g)
    BY DEF SplConstraints
  <1>2. SplConstraints(g) \subseteq ConstraintGroup(g).constraints
    BY GroupFields
  <1> QED
    BY <1>1, <1>2

LEMMA Kinds ==
  ASSUME NEW g, Taken(g), Builds(g)
  PROVE  /\ InitKind(g) = "none" <=> ~HasInit(g)
         /\ HasInit(g) /\ g \cap TokenTokens # {} => InitKind(g) = "Token"
         /\ g \cap AssociatedTokens # {} => "associated_token::mint" \in g
         /\ HasInit(g) /\ g \cap AssociatedTokens # {} => InitKind(g) = "AssociatedToken"
  <1>1. InitKind(g) = "none" <=> ~HasInit(g)
    BY DEF InitKind
  <1>2. g \cap AssociatedTokens # {} => "associated_token::mint" \in g
    BY DEF Builds, AssociatedTokenBuilds, AssociatedTokens
  <1>3. HasInit(g) /\ g \cap TokenTokens # {} => InitKind(g) = "Token"
    BY DEF Builds, InitBuilds, TokenTokens, InitKind
  <1>4. HasInit(g) /\ "associated_token::mint" \in g => InitKind(g) = "AssociatedToken"
    BY DEF InitKind, Taken
  <1> QED
    BY <1>1, <1>2, <1>3, <1>4

LEMMA LostTokens ==
  ASSUME NEW f, BuiltRight(f), NEW t \in Lost(f)
  PROVE  /\ f.group.init # "none"
         /\ (t \in MintTokens /\ f.group.init # "Mint") \/ t = "seeds::program"
  <1> DEFINE g == f.given
             c == f.group.constraints
             k == f.group.init
  <1>1. f.group = ConstraintGroup(g) /\ Taken(g) /\ Builds(g) /\ k = InitKind(g) /\ t \in g
    BY GroupFields DEF BuiltRight, Lost
  <1>2. ConstraintOf(t) \subseteq c
    BY <1>1, CompletedHas, Becomes
  <1>3. "seeds" \in g => "Seeds" \in c
    BY <1>1, CompletedHas, Becomes, Single
  <1>4. \/ t \in TokenTokens /\ "TokenAccount" \notin c /\ k # "Token"
        \/ t \in AssociatedTokens /\ "AssociatedToken" \notin c /\ k # "AssociatedToken"
        \/ t \in MintTokens /\ "Mint" \notin c /\ k # "Mint"
        \/ t = "seeds::program" /\ (k # "none" \/ "Seeds" \notin c)
        \/ t \in BumpTokens /\ "Seeds" \notin c
    BY <1>2 DEF Lost
  <1>5. ~HasInit(g) =>
          /\ g \cap TokenTokens # {} => "TokenAccount" \in c
          /\ g \cap MintTokens # {} => "Mint" \in c
          /\ "associated_token::mint" \in g => "AssociatedToken" \in c
    BY <1>1, SplChecked
  <1>6. /\ k = "none" <=> ~HasInit(g)
        /\ HasInit(g) /\ g \cap TokenTokens # {} => k = "Token"
        /\ g \cap AssociatedTokens # {} => "associated_token::mint" \in g
        /\ HasInit(g) /\ g \cap AssociatedTokens # {} => k = "AssociatedToken"
    BY <1>1, Kinds
  <1>7. /\ g \cap BumpTokens # {} => "seeds" \in g
        /\ "seeds::program" \in g => "seeds" \in g
    BY <1>1 DEF Taken
  <1>8. t \in g
    BY <1>1
  <1> HIDE DEF g, c, k
  <1>9. k # "none" /\ ((t \in MintTokens /\ k # "Mint") \/ t = "seeds::program")
    BY <1>3, <1>4, <1>5, <1>6, <1>7, <1>8
  <1> QED
    BY <1>9 DEF k

LEMMA LostRight ==
  ASSUME \A i \in DOMAIN fields : BuiltRight(fields[i])
  PROVE  LostOnlyToInit
  <1> SUFFICES ASSUME NEW f \in BuiltFields
               PROVE  /\ f.group.init = "none" => Lost(f) = {}
                      /\ Lost(f) \subseteq MintTokens \cup {"seeds::program"}
                      /\ f.group.init = "Mint" => Lost(f) \subseteq {"seeds::program"}
    BY DEF LostOnlyToInit
  <1>1. BuiltRight(f)
    BY DEF BuiltFields
  <1> QED
    BY <1>1, LostTokens

-----------------------------------------------------------------------------
(* The order of the checks. *)

LEMMA LeastNatural ==
  ASSUME NEW T \in SUBSET Nat, T # {}
  PROVE  \E n \in T : \A m \in T : n <= m
  <1> DEFINE R == {ss \in Nat \X Nat : ss[1] < ss[2]}
  <1>1. IsWellFoundedOn(R, Nat)
    BY NatLessThanWellFounded, Zenon DEF OpToRel
  <1>2. PICK n \in T : \A m \in T : ~(<<m, n>> \in R)
    BY <1>1, WFMin
  <1>3. ASSUME NEW m \in T, m < n PROVE FALSE
    <2>1. <<m, n>> \in Nat \X Nat
      OBVIOUS
    <2>2. <<m, n>> \in R
      BY <2>1, <1>3
    <2> QED
      BY <2>2, <1>2
  <1> QED
    BY <1>3

LEMMA SetInduction ==
  ASSUME NEW S, 0 \in S, \A n \in Nat : n \in S => n + 1 \in S
  PROVE  \A n \in Nat : n \in S
  <1> DEFINE T == Nat \ S
  <1> SUFFICES ASSUME T # {} PROVE FALSE
    OBVIOUS
  <1>1. PICK n \in T : \A m \in T : n <= m
    BY LeastNatural
  <1>2. n # 0 /\ n \in Nat
    BY <1>1
  <1>3. n - 1 \in Nat /\ n - 1 \notin T
    BY <1>1, <1>2
  <1> QED
    BY <1>1, <1>3

Places == DOMAIN LinearOrder

Checks == {LinearOrder[p] : p \in Places}

LEMMA OrderType == Len(LinearOrder) = 17 /\ Places = 1..17
  <1>1. Len(LinearOrder) = 17
    BY DEF LinearOrder
  <1>2. DOMAIN LinearOrder = 1..17
    BY DEF LinearOrder
  <1> QED
    BY <1>1, <1>2 DEF Places

(* The constraints of s stand in s as they do among the first n of the order. *)
Ordered(s, n) ==
  \A i, j \in DOMAIN s : i < j =>
    \E p, q \in Places : p < q /\ q <= n /\ LinearOrder[p] = s[i] /\ LinearOrder[q] = s[j]

Among(s, n) == \A i \in DOMAIN s : \E p \in Places : p <= n /\ LinearOrder[p] = s[i]

(* What is pushed keeps the order. *)
LEMMA PushOrdered ==
  ASSUME NEW s \in Seq(Checks), NEW n \in Nat, n + 1 \in Places, Ordered(s, n), Among(s, n)
  PROVE  LET t == Append(s, LinearOrder[n + 1])
         IN  t \in Seq(Checks) /\ Ordered(t, n + 1) /\ Among(t, n + 1)
  <1> DEFINE c == LinearOrder[n + 1]
             t == Append(s, c)
  <1>0. c \in Checks
    BY DEF Checks
  <1>1. t \in Seq(Checks) /\ Len(t) = Len(s) + 1 /\ t[Len(s) + 1] = c
     /\ \A i \in 1..Len(s) : t[i] = s[i]
    BY <1>0
  <1>2. DOMAIN t = 1..(Len(s) + 1) /\ DOMAIN s = 1..Len(s) /\ Len(s) \in Nat
    BY <1>1
  <1>a. Places \subseteq Nat
    BY OrderType
  <1> HIDE DEF t
  <1>3. Among(t, n + 1)
    <2> SUFFICES ASSUME NEW i \in DOMAIN t
                 PROVE  \E p \in Places : p <= n + 1 /\ LinearOrder[p] = t[i]
      BY DEF Among
    <2>1. CASE i = Len(s) + 1
      BY <1>1, <2>1, n + 1 <= n + 1
    <2>2. CASE i \in DOMAIN s
      <3>1. PICK p \in Places : p <= n /\ LinearOrder[p] = s[i]
        BY <2>2 DEF Among
      <3>2. p <= n + 1 /\ t[i] = s[i]
        BY <1>1, <1>2, <1>a, <2>2, <3>1
      <3> QED
        BY <3>1, <3>2
    <2> QED
      BY <1>2, <2>1, <2>2
  <1>4. Ordered(t, n + 1)
    <2> SUFFICES ASSUME NEW i \in DOMAIN t, NEW j \in DOMAIN t, i < j
                 PROVE  \E p, q \in Places : p < q /\ q <= n + 1 /\ LinearOrder[p] = t[i]
                                                        /\ LinearOrder[q] = t[j]
      BY DEF Ordered
    <2>1. i \in DOMAIN s /\ t[i] = s[i]
      BY <1>1, <1>2
    <2>2. CASE j = Len(s) + 1
      <3>1. PICK p \in Places : p <= n /\ LinearOrder[p] = s[i]
        BY <2>1 DEF Among
      <3>2. p < n + 1 /\ n + 1 <= n + 1
        BY <1>a, <3>1
      <3> QED
        BY <1>1, <2>1, <2>2, <3>1, <3>2
    <2>3. CASE j \in DOMAIN s
      <3>1. PICK p, q \in Places : p < q /\ q <= n /\ LinearOrder[p] = s[i] /\ LinearOrder[q] = s[j]
        BY <2>1, <2>3 DEF Ordered
      <3>2. q <= n + 1 /\ t[j] = s[j]
        BY <1>1, <1>2, <1>a, <2>3, <3>1
      <3> QED
        BY <2>1, <3>1, <3>2
    <2> QED
      BY <1>2, <2>2, <2>3
  <1> QED
    BY <1>1, <1>3, <1>4 DEF t

LEMMA KeptOrdered ==
  ASSUME NEW s, NEW n \in Nat, Ordered(s, n), Among(s, n)
  PROVE  Ordered(s, n + 1) /\ Among(s, n + 1)
  <1>1. \A p \in Places : p <= n => p <= n + 1
    BY OrderType
  <1> QED
    BY <1>1 DEF Ordered, Among

(* One push of linearize. *)
Push(s, group, i) ==
  IF LinearOrder[i] \in group.constraints THEN Append(s, LinearOrder[i]) ELSE s

LEMMA Linearized ==
  ASSUME NEW group
  PROVE  \E s \in Seq(Checks) : linearize(group) = s /\ Ordered(s, 17)
  <1> DEFINE D == 0..Len(LinearOrder)
             Value(g, i) == IF i = 0 THEN <<>> ELSE Push(g[i - 1], group, i)
             Table(g) == g = [i \in D |-> Value(g, i)]
             Reached == {n \in Nat : \E g : g = [i \in D |-> g[i]]
                                          /\ \A i \in D : i <= n => g[i] = Value(g, i)}
             pushed == CHOOSE g : g = [i \in 0..Len(LinearOrder) |->
                          IF i = 0 THEN <<>>
                          ELSE IF LinearOrder[i] \in group.constraints
                          THEN Append(g[i - 1], LinearOrder[i]) ELSE g[i - 1]]
             Right(s, n) == s \in Seq(Checks) /\ Ordered(s, n) /\ Among(s, n)
             Sound == {n \in Nat : n \in D => Right(pushed[n], n)}
  <1>0. D = 0..17
    BY OrderType
  <1>1. 0 \in Reached
    <2> DEFINE g == [i \in D |-> <<>>]
    <2>1. g = [i \in D |-> g[i]] /\ \A i \in D : i <= 0 => g[i] = Value(g, i)
      BY <1>0
    <2> HIDE DEF g, D, Value
    <2> QED
      BY <2>1
  <1>2. ASSUME NEW n \in Nat, n \in Reached PROVE n + 1 \in Reached
    <2>1. PICK g : g = [i \in D |-> g[i]] /\ \A i \in D : i <= n => g[i] = Value(g, i)
      BY <1>2
    <2> DEFINE h == [i \in D |-> IF i = n + 1 THEN Push(g[n], group, n + 1) ELSE g[i]]
    <2>2. ASSUME NEW i \in D, i <= n + 1 PROVE h[i] = Value(h, i)
      <3>a. i \in 0..17
        BY <1>0
      <3> HIDE DEF D
      <3>1. CASE i = n + 1
        <4>1. h[i] = Push(g[n], group, n + 1) /\ i # 0 /\ i - 1 = n /\ n # n + 1 /\ n \in D
          BY <3>1, <3>a, <1>0
        <4>2. h[n] = g[n]
          BY <4>1
        <4> HIDE DEF h
        <4> QED
          BY <3>1, <4>1, <4>2
      <3>2. CASE i # n + 1
        <4>1. i <= n /\ (i # 0 => i - 1 \in D /\ i - 1 # n + 1)
          BY <3>2, <3>a, <2>2, <1>0
        <4>2. h[i] = g[i] /\ (i # 0 => h[i - 1] = g[i - 1])
          BY <3>2, <4>1
        <4>3. g[i] = Value(g, i)
          BY <4>1, <2>1
        <4> HIDE DEF h
        <4> QED
          BY <4>2, <4>3
      <3> QED
        BY <3>1, <3>2
    <2>3. h = [i \in D |-> h[i]]
      OBVIOUS
    <2> HIDE DEF h, Value, D
    <2> QED
      BY <2>2, <2>3
  <1>3. 17 \in Reached
    <2> HIDE DEF Reached
    <2> QED
      BY <1>1, <1>2, SetInduction, 17 \in Nat
  <1>4. PICK g : g = [i \in D |-> g[i]] /\ \A i \in D : i <= 17 => g[i] = Value(g, i)
    BY <1>3
  <1>5. Table(g)
    <2>1. ASSUME NEW i \in D PROVE g[i] = Value(g, i)
      <3> HIDE DEF Value, D
      <3>1. i <= 17
        BY <1>0
      <3> QED
        BY <1>4, <3>1
    <2> HIDE DEF Value, D
    <2> QED
      BY <1>4, <2>1
  <1>6. Table(pushed)
    <2>1. pushed = CHOOSE f : Table(f)
      BY DEF Push
    <2> HIDE DEF Table, pushed
    <2> QED
      BY <1>5, <2>1, Zenon
  <1>7. linearize(group) = pushed[17]
    <2>1. linearize(group) = pushed[Len(LinearOrder)]
      BY Zenon DEF linearize
    <2> HIDE DEF pushed
    <2> QED
      BY <2>1, OrderType
  <1> HIDE DEF pushed
  <1>8. \A i \in D : pushed[i] = Value(pushed, i)
    BY <1>6
  <1> HIDE DEF Table, Reached
  <1>9. 0 \in Sound
    <2>1. pushed[0] = <<>>
      BY <1>8, <1>0
    <2>2. Right(<<>>, 0)
      BY DEF Ordered, Among
    <2> QED
      BY <2>1, <2>2
  <1>10. ASSUME NEW n \in Nat, n \in Sound PROVE n + 1 \in Sound
    <2>1. SUFFICES ASSUME n + 1 \in D PROVE Right(pushed[n + 1], n + 1)
      OBVIOUS
    <2>2. n \in D /\ n + 1 # 0 /\ (n + 1) - 1 = n /\ n + 1 \in Places
      BY <2>1, <1>0, OrderType
    <2>3. Right(pushed[n], n)
      BY <1>10, <2>2
    <2>4. pushed[n + 1] = Push(pushed[n], group, n + 1)
      BY <1>8, <2>1, <2>2
    <2> DEFINE s == pushed[n]
    <2> HIDE DEF s
    <2>5. s \in Seq(Checks) /\ Ordered(s, n) /\ Among(s, n) /\ pushed[n + 1] = Push(s, group, n + 1)
      BY <2>3, <2>4 DEF s
    <2>6. CASE LinearOrder[n + 1] \in group.constraints
      <3>1. pushed[n + 1] = Append(s, LinearOrder[n + 1])
        BY <2>5, <2>6 DEF Push
      <3>2. Right(Append(s, LinearOrder[n + 1]), n + 1)
        BY <2>2, <2>5, PushOrdered
      <3> QED
        BY <3>1, <3>2
    <2>7. CASE LinearOrder[n + 1] \notin group.constraints
      <3>1. pushed[n + 1] = s
        BY <2>5, <2>7 DEF Push
      <3>2. Right(s, n + 1)
        BY <2>5, KeptOrdered
      <3> QED
        BY <3>1, <3>2
    <2> QED
      BY <2>6, <2>7
  <1>11. 17 \in Sound
    <2> HIDE DEF Sound
    <2> QED
      BY <1>9, <1>10, SetInduction, 17 \in Nat
  <1>12. Right(pushed[17], 17)
    BY <1>11, <1>0
  <1> QED
    BY <1>7, <1>12

(* Where the first checks are. *)
LEMMA FirstPlaces ==
  ASSUME NEW p \in Places
  PROVE  /\ LinearOrder[p] \in {"Init", "Zeroed"} => p \in 1..2
         /\ LinearOrder[p] = "Seeds" => p = 3
         /\ p \in 1..2 => LinearOrder[p] \in {"Init", "Zeroed"}
         /\ LinearOrder[p] \in {"HasOne", "Raw", "Literal", "Owner"} => p > 3
  <1>1. p \in 1..17
    BY OrderType
  <1> QED
    BY <1>1 DEF LinearOrder

LEMMA ChecksInOrder == AccountBeforeChecks
  <1> SUFFICES ASSUME NEW f \in BuiltFields
               PROVE  LET list == linearize(f.group)
                      IN \A i, j \in DOMAIN list :
                           /\ list[i] \in {"Init", "Zeroed"} /\ list[j] \notin {"Init", "Zeroed"} => i < j
                           /\ list[i] = "Seeds" /\ list[j] \in {"HasOne", "Raw", "Literal", "Owner"} => i < j
    BY DEF AccountBeforeChecks
  <1> DEFINE list == linearize(f.group)
  <1>1. PICK s \in Seq(Checks) : list = s /\ Ordered(s, 17)
    BY Linearized
  <1> HIDE DEF list
  <1>2. ASSUME NEW i \in DOMAIN list, NEW j \in DOMAIN list
        PROVE  /\ list[i] \in {"Init", "Zeroed"} /\ list[j] \notin {"Init", "Zeroed"} => i < j
               /\ list[i] = "Seeds" /\ list[j] \in {"HasOne", "Raw", "Literal", "Owner"} => i < j
    <2>1. i \in Nat /\ j \in Nat
      BY <1>1
    <2>2. CASE i < j
      BY <2>2
    <2>3. CASE i = j
      BY <2>3
    <2>4. CASE j < i
      <3>1. PICK p, q \in Places : p < q /\ LinearOrder[p] = list[j] /\ LinearOrder[q] = list[i]
        BY <1>1, <2>4 DEF Ordered
      <3>2. p \in 1..17 /\ q \in 1..17
        BY <3>1, OrderType
      <3>3. list[i] \in {"Init", "Zeroed"} => list[j] \in {"Init", "Zeroed"}
        <4>1. list[i] \in {"Init", "Zeroed"} => q \in 1..2
          BY <3>1, FirstPlaces
        <4>2. q \in 1..2 => p \in 1..2
          BY <3>1, <3>2
        <4>3. p \in 1..2 => list[j] \in {"Init", "Zeroed"}
          BY <3>1, FirstPlaces
        <4> QED
          BY <4>1, <4>2, <4>3
      <3>4. ~(list[i] = "Seeds" /\ list[j] \in {"HasOne", "Raw", "Literal", "Owner"})
        <4>1. list[i] = "Seeds" => q = 3
          BY <3>1, FirstPlaces
        <4>2. list[j] \in {"HasOne", "Raw", "Literal", "Owner"} => p > 3
          BY <3>1, FirstPlaces
        <4> QED
          BY <3>1, <3>2, <4>1, <4>2
      <3> QED
        BY <3>3, <3>4
    <2> QED
      BY <2>1, <2>2, <2>3, <2>4
  <1> QED
    BY <1>2 DEF list

-----------------------------------------------------------------------------
(* The invariant, and what follows from it. *)

LEMMA StartsRight == Init => IInv
  <1> SUFFICES ASSUME Init PROVE IInv
    OBVIOUS
  <1>1. given = {} /\ fields = <<>> /\ result = "reading" /\ ty \in FieldTypes
    BY ConstraintsAssumption DEF Init
  <1>2. Taken(given) /\ given \subseteq ConstraintToken
    BY <1>1 DEF Taken
  <1>3. fields \in Seq(Field) /\ \A i \in DOMAIN fields : BuiltRight(fields[i])
    BY <1>1
  <1> QED
    BY <1>1, <1>2, <1>3 DEF IInv

LEMMA StepsRight == IInv /\ [Next]_vars => IInv'
  <1> SUFFICES ASSUME IInv, [Next]_vars PROVE IInv'
    OBVIOUS
  <1>0. /\ given \subseteq ConstraintToken /\ Taken(given) /\ ty \in FieldTypes
        /\ fields \in Seq(Field) /\ \A i \in DOMAIN fields : BuiltRight(fields[i])
        /\ result = "generated" => CrossChecks(fields, struct) /\ CompositesGenerate(fields)
    BY DEF IInv
  <1>1. ASSUME NEW t \in Tokens, AddToken(t) PROVE IInv'
    <2>1. t \in ConstraintToken
      BY ConstraintsAssumption
    <2>2. fields' = fields /\ ty' = ty /\ struct' = struct /\ result' # "generated"
      BY <1>1 DEF AddToken
    <2>3. given' \subseteq ConstraintToken /\ Taken(given')
      BY <1>0, <1>1, <2>1, AddKeeps DEF AddToken
    <2> QED
      BY <1>0, <2>2, <2>3 DEF IInv
  <1>2. ASSUME BuildField PROVE IInv'
    <2>1. result' # "generated"
      BY <1>2 DEF BuildField
    <2>2. CASE ~Builds(given)
      <3>1. fields' = fields /\ ty' = ty /\ given' = given
        BY <1>2, <2>2 DEF BuildField
      <3> QED
        BY <1>0, <2>1, <3>1 DEF IInv
    <2>3. CASE Builds(given)
      <3> DEFINE f == [type |-> ty, group |-> ConstraintGroup(given), given |-> given]
      <3>1. fields' = Append(fields, f) /\ given' = {} /\ ty' \in Types
        BY <1>2, <2>3 DEF BuildField
      <3>2. f \in Field /\ f.given = given /\ f.group = ConstraintGroup(given)
        BY <1>0 DEF Field
      <3> HIDE DEF f
      <3>3. BuiltRight(f)
        BY <1>0, <2>3, <3>2 DEF BuiltRight
      <3>4. fields' \in Seq(Field)
        BY <1>0, <3>1, <3>2
      <3>5. \A i \in DOMAIN fields' : BuiltRight(fields'[i])
        <4> SUFFICES ASSUME NEW i \in DOMAIN fields' PROVE BuiltRight(fields'[i])
          OBVIOUS
        <4>1. (i \in DOMAIN fields /\ fields'[i] = fields[i]) \/ fields'[i] = f
          BY <1>0, <3>1, <3>2
        <4> QED
          BY <1>0, <3>3, <4>1
      <3>6. ty' \in FieldTypes
        BY <3>1, ConstraintsAssumption
      <3>7. given' \subseteq ConstraintToken /\ Taken(given')
        BY <3>1 DEF Taken
      <3> QED
        BY <2>1, <3>4, <3>5, <3>6, <3>7 DEF IInv
    <2> QED
      BY <2>2, <2>3
  <1>3. ASSUME NEW s \in Rests, FinishStruct(s) PROVE IInv'
    <2>1. fields' = fields /\ ty' = ty /\ given' = given /\ struct' = s
      BY <1>3 DEF FinishStruct
    <2>2. result' = "generated" => CrossChecks(fields, s) /\ CompositesGenerate(fields)
      BY <1>3 DEF FinishStruct
    <2>3. result' = "generated" => CrossChecks(fields', struct') /\ CompositesGenerate(fields')
      BY <2>1, <2>2
    <2> QED
      BY <1>0, <2>1, <2>3 DEF IInv
  <1>4. ASSUME UNCHANGED vars PROVE IInv'
    <2>1. fields' = fields /\ ty' = ty /\ given' = given /\ struct' = struct /\ result' = result
      BY <1>4 DEF vars
    <2>2. result' = "generated" => CrossChecks(fields', struct') /\ CompositesGenerate(fields')
      BY <1>0, <2>1
    <2> QED
      BY <1>0, <2>1, <2>2 DEF IInv
  <1> QED
    BY <1>1, <1>2, <1>3, <1>4 DEF Next

LEMMA RightCreates == IInv => CreationSucceeds
  <1> SUFFICES ASSUME IInv PROVE CreationSucceeds
    OBVIOUS
  <1>0. ASSUME NEW f \in BuiltFields PROVE BuiltRight(f)
    BY DEF BuiltFields, IInv
  <1>1. WrittenBackIfTouched
    BY <1>0, Written DEF WrittenBackIfTouched
  <1>2. CreationIsSigned
    BY <1>0, Signed DEF CreationIsSigned
  <1>3. CreationIsPaid
    BY Paid DEF CreationIsPaid
  <1> QED
    BY <1>1, <1>2, <1>3 DEF CreationSucceeds

LEMMA RightChecks == IInv => ChecksAreWhole
  BY LostRight, ChecksInOrder DEF IInv, ChecksAreWhole

(* Whatever keywords the fields of a struct are given, in whatever order: an account    *)
(* that an accepted struct creates signs or has a derived address, is paid for by a     *)
(* payer that is not known to be immutable, and is written back with every account      *)
(* that is taken over or closed (ConstraintGroupBuilder::build,                         *)
(* constraints_cross_checks).                                                           *)
THEOREM AcceptedStructsCreate == Spec => []CreationSucceeds
  <1>1. Init => IInv
    BY StartsRight
  <1>2. IInv /\ [Next]_vars => IInv'
    BY StepsRight
  <1>3. IInv => CreationSucceeds
    BY RightCreates
  <1> QED
    BY <1>1, <1>2, <1>3, PTL DEF Spec

(* The checks generated for a field lose no keyword but those of a mint and the program *)
(* of the seeds, and these only to an init, and run in an order in which each finds     *)
(* what it reads (ConstraintGroupBuilder::build, linearize).                            *)
THEOREM ChecksAlwaysWhole == Spec => []ChecksAreWhole
  <1>1. Init => IInv
    BY StartsRight
  <1>2. IInv /\ [Next]_vars => IInv'
    BY StepsRight
  <1>3. IInv => ChecksAreWhole
    BY RightChecks
  <1> QED
    BY <1>1, <1>2, <1>3, PTL DEF Spec
=============================================================================
