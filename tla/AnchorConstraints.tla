------------------------- MODULE AnchorConstraints -------------------------
(***************************************************************************)
(* The accounts of an Anchor instruction are declared as a struct whose     *)
(* fields carry #[account(..)] attributes.  This module is the derive macro  *)
(* that reads such a struct: ConstraintGroupBuilder takes the keywords of a  *)
(* field one by one and refuses some depending on what came before, build    *)
(* completes and checks the group, linearize puts the group's constraints in *)
(* the order their checks run, and constraints_cross_checks looks at the     *)
(* fields together.  A keyword is a string; the expressions behind it, the   *)
(* custom errors (@) and the wording of the parse errors are left out.       *)
(***************************************************************************)
EXTENDS Naturals, Sequences, FiniteSets

CONSTANTS Tokens,        \* the keywords a declaration of this instance may use
          Types,         \* the types its fields may have
          MaxTokens,     \* how many keywords a field has at most
          MaxFields,     \* how many fields a struct has at most
          Rests,         \* what the rest of a struct may look like
          InitIfNeeded   \* whether the cargo feature init-if-needed is on

-----------------------------------------------------------------------------
(* The keywords parse_token knows, by the form they are written in. *)
InitTokens == {"init", "init_if_needed"}
PlainTokens == {"zero", "mut", "signer", "executable"}
MintTokens == {"mint::authority", "mint::freeze_authority", "mint::decimals"}
TokenTokens == {"token::mint", "token::authority"}
AssociatedTokens == {"associated_token::mint", "associated_token::authority"}
BumpTokens == {"bump", "bump = target"}
SeedsTokens == {"seeds", "seeds::program"}
RentTokens == {"rent_exempt = skip", "rent_exempt = enforce"}
ValueTokens == {"has_one", "owner", "state", "payer", "space", "constraint", "close",
                "address"}
ConstraintToken ==
  UNION {InitTokens, PlainTokens, MintTokens, TokenTokens, AssociatedTokens, BumpTokens,
         SeedsTokens, RentTokens, ValueTokens, {"literal"}}

\* Ty: the types of a field that is one account; any other type is a struct of accounts
\* of its own, a composite field.
AccountTypes == {"Account", "ProgramAccount", "Loader", "AccountLoader"}
Ty == AccountTypes \cup {"AccountInfo", "UncheckedAccount", "Signer", "SystemAccount",
                         "Program", "ProgramData", "Sysvar", "ProgramState", "CpiState",
                         "CpiAccount"}
FieldTypes == Ty \cup {"composite"}

\* What a field of init asks of the rest of the struct: the programs that are fields of
\* it; how its payer appears there (composite is an expression into a nested struct); and
\* whether the mint it names is an account of the struct or just an address.
Programs == {"system_program", "token_program", "associated_token_program"}
PayerForms == {"missing", "readonly", "mutable", "composite"}
MintForms == {"account", "address"}
Structs == [programs : SUBSET Programs, payer : PayerForms, mint : MintForms]

ASSUME ConstraintsAssumption ==
  /\ Tokens \subseteq ConstraintToken
  /\ Rests \subseteq Structs
  /\ Types \subseteq FieldTypes
  /\ MaxTokens \in Nat /\ MaxFields \in Nat
  /\ InitIfNeeded \in BOOLEAN

VARIABLES ty,       \* the type of the field being read
          given,    \* the keywords taken of it: the builder
          fields,   \* the fields already built
          struct,   \* what the rest of the struct looks like, once all fields are read
          result    \* where the macro is, or how it ended

vars == <<ty, given, fields, struct, result>>

-----------------------------------------------------------------------------
(* add: whether the builder takes one more keyword. *)

\* The keywords that fill the same member of the builder.
Member(t) ==
  IF t \in InitTokens THEN InitTokens
  ELSE IF t \in BumpTokens THEN BumpTokens
  ELSE IF t \in RentTokens THEN RentTokens ELSE {t}

Provided(g, t) == g \cap Member(t) # {}

HasInit(g) == g \cap InitTokens # {}

AddInit(g) ==
  /\ ~HasInit(g) /\ "zero" \notin g
  /\ g \cap UNION {TokenTokens, MintTokens, AssociatedTokens} = {}

AddZeroed(g) == "zero" \notin g /\ ~HasInit(g)

AddClose(g, type) == type \in AccountTypes /\ "mut" \in g /\ "close" \notin g

AddTokenMint(g) == "token::mint" \notin g /\ "associated_token::mint" \notin g

AddAssociatedTokenMint(g) == "associated_token::mint" \notin g /\ "token::mint" \notin g

AddAssociatedTokenAuthority(g) ==
  "associated_token::authority" \notin g /\ "token::authority" \notin g

AddBump(g) == g \cap BumpTokens = {} /\ "seeds" \in g

AddProgramSeed(g) == "seeds::program" \notin g /\ "seeds" \in g /\ ~HasInit(g)

AddPayer(g) == HasInit(g) /\ "payer" \notin g

AddSpace(g) == HasInit(g) /\ "space" \notin g

\* literal and constraint are lists, every other keyword is given once (a has_one, once
\* for a target).
AddOnce(g, t) == t \in {"literal", "constraint"} \/ ~Provided(g, t)

Add(g, t, type) ==
  CASE t \in InitTokens -> AddInit(g)
    [] t = "zero" -> AddZeroed(g)
    [] t = "close" -> AddClose(g, type)
    [] t = "token::mint" -> AddTokenMint(g)
    [] t = "associated_token::mint" -> AddAssociatedTokenMint(g)
    [] t = "associated_token::authority" -> AddAssociatedTokenAuthority(g)
    [] t \in BumpTokens -> AddBump(g)
    [] t = "seeds::program" -> AddProgramSeed(g)
    [] t = "payer" -> AddPayer(g)
    [] t = "space" -> AddSpace(g)
    [] OTHER -> AddOnce(g, t)

-----------------------------------------------------------------------------
(* build *)

\* The checks of the init block.
InitBuilds(g) ==
  /\ "init_if_needed" \in g => InitIfNeeded
  /\ "mut" \notin g
  /\ "payer" \in g
  /\ "bump = target" \notin g
  /\ "token::mint" \in g <=> "token::authority" \in g
  /\ "mint::decimals" \in g <=> "mint::authority" \in g

ZeroedBuilds(g) == "mut" \notin g

SeedsBuild(g) ==
  /\ HasInit(g) => "payer" \in g
  /\ g \cap BumpTokens # {}

InitializingTokenProgramAcc(g) ==
  g \cap {"token::mint", "mint::authority", "token::authority",
          "associated_token::authority"} # {}

SpaceBuilds(g) == "space" \in g <=> ~InitializingTokenProgramAcc(g)

AssociatedTokenBuilds(g) ==
  /\ "associated_token::mint" \in g <=> "associated_token::authority" \in g
  /\ "associated_token::mint" \in g => "seeds" \notin g

Builds(g) ==
  /\ HasInit(g) => InitBuilds(g) /\ SpaceBuilds(g)
  /\ "zero" \in g => ZeroedBuilds(g)
  /\ "seeds" \in g => SeedsBuild(g)
  /\ AssociatedTokenBuilds(g)

\* What build adds to the keywords given: init and zero make the account mutable and, if
\* nothing is said of it, rent exempt; an account created at an address that is not
\* derived has to sign.
ImpliedMut(g) == IF HasInit(g) \/ "zero" \in g THEN {"mut"} ELSE {}

ImpliedRent(g) ==
  IF (HasInit(g) \/ "zero" \in g) /\ g \cap RentTokens = {} THEN {"rent_exempt = enforce"}
  ELSE {}

ImpliedSigner(g) ==
  IF HasInit(g) /\ g \cap {"seeds", "associated_token::mint"} = {} THEN {"signer"} ELSE {}

InitKind(g) ==
  IF ~HasInit(g) THEN "none"
  ELSE IF "token::mint" \in g THEN "Token"
  ELSE IF "associated_token::mint" \in g THEN "AssociatedToken"
  ELSE IF "mint::decimals" \in g THEN "Mint" ELSE "Program"

\* The constraint a keyword becomes on its own.
ConstraintOf(t) ==
  CASE t \in InitTokens -> {"Init"}      [] t = "zero" -> {"Zeroed"}
    [] t = "mut" -> {"Mut"}              [] t = "signer" -> {"Signer"}
    [] t = "executable" -> {"Executable"} [] t = "seeds" -> {"Seeds"}
    [] t \in RentTokens -> {"RentExempt"} [] t = "has_one" -> {"HasOne"}
    [] t = "owner" -> {"Owner"}          [] t = "state" -> {"State"}
    [] t = "constraint" -> {"Raw"}       [] t = "literal" -> {"Literal"}
    [] t = "close" -> {"Close"}          [] t = "address" -> {"Address"}
    [] OTHER -> {}

\* Variant: a token account is checked only when both its mint and its authority are given.
SplWhenComplete(g) ==
  IF HasInit(g) THEN {}
  ELSE {c \in {"AssociatedToken", "TokenAccount", "Mint"} :
          \/ c = "AssociatedToken" /\ "associated_token::mint" \in g
          \/ c = "TokenAccount" /\ TokenTokens \subseteq g
          \/ c = "Mint" /\ g \cap MintTokens # {}}

\* The constraints the keywords of token and mint accounts become: with init they are
\* part of what is created, and checked nowhere else.
SplConstraints(g) ==
  IF HasInit(g) THEN {}
  ELSE {c \in {"AssociatedToken", "TokenAccount", "Mint"} :
          \/ c = "AssociatedToken" /\ "associated_token::mint" \in g
          \/ c = "TokenAccount" /\ g \cap TokenTokens # {}
          \/ c = "Mint" /\ g \cap MintTokens # {}}

ConstraintGroup(g) ==
  LET completed == UNION {g, ImpliedMut(g), ImpliedRent(g), ImpliedSigner(g)}
  IN [init |-> InitKind(g),
      program_seed |-> "seeds::program" \in g,
      constraints |-> (UNION {ConstraintOf(t) : t \in completed}) \cup SplConstraints(g)]

-----------------------------------------------------------------------------
(* linearize: the order in which the checks of a field run. *)

LinearOrder ==
  <<"Zeroed", "Init", "Seeds", "AssociatedToken", "Mut", "Signer", "HasOne", "Literal",
    "Raw", "Owner", "RentExempt", "Executable", "State", "Close", "Address",
    "TokenAccount", "Mint">>

linearize(group) ==
  LET pushed[i \in 0..Len(LinearOrder)] ==
        IF i = 0 THEN <<>>
        ELSE IF LinearOrder[i] \in group.constraints
        THEN Append(pushed[i - 1], LinearOrder[i]) ELSE pushed[i - 1]
  IN  pushed[Len(LinearOrder)]

-----------------------------------------------------------------------------
(* constraints_cross_checks *)

\* The places of the accounts that the struct creates.
InitFields(fs) ==
  {i \in DOMAIN fs : fs[i].type # "composite" /\ fs[i].group.init # "none"}

\* Variant: the payer need only exist.
PayerExists(s) == s.payer # "missing"

PayerBuilds(s) == s.payer \in {"mutable", "composite"}

CrossChecks(fs, s) ==
  LET inits == InitFields(fs)
      first == CHOOSE i \in inits : \A j \in inits : i <= j
      kind == fs[first].group.init
  IN inits # {} =>
       /\ "system_program" \in s.programs
       /\ kind \in {"Token", "AssociatedToken", "Mint"} => "token_program" \in s.programs
       /\ kind = "AssociatedToken" => "associated_token_program" \in s.programs
       /\ PayerBuilds(s)
       /\ kind \in {"Token", "AssociatedToken"} /\ s.payer # "composite" => s.mint = "account"

\* generate_composite panics on a constraint it has no check for.
CompositesGenerate(fs) ==
  \A i \in DOMAIN fs :
    fs[i].type = "composite" => fs[i].group.constraints \subseteq {"Raw", "Literal"}

-----------------------------------------------------------------------------
(* The macro at work on one struct. *)

Unread == [programs |-> {}, payer |-> "missing", mint |-> "address"]

Init ==
  /\ ty \in Types /\ given = {} /\ fields = <<>> /\ struct = Unread /\ result = "reading"

\* constraints.add(c)?
AddToken(t) ==
  /\ result = "reading" /\ Len(fields) < MaxFields /\ Cardinality(given) < MaxTokens
  /\ IF Add(given, t, ty) THEN given' = given \cup {t} /\ result' = result
     ELSE given' = given /\ result' = "refused"
  /\ UNCHANGED <<ty, fields, struct>>

\* constraints.build()?
BuildField ==
  /\ result = "reading" /\ Len(fields) < MaxFields
  /\ IF Builds(given)
     THEN /\ fields' = Append(fields, [type |-> ty, group |-> ConstraintGroup(given),
                                       given |-> given])
          /\ given' = {} /\ ty' \in Types /\ UNCHANGED result
     ELSE result' = "unbuilt" /\ UNCHANGED <<ty, given, fields>>
  /\ UNCHANGED struct

\* constraints_cross_checks(&fields)? and the generation of the checks
FinishStruct(s) ==
  /\ result = "reading" /\ given = {} /\ fields # <<>>
  /\ struct' = s
  /\ result' = IF ~CrossChecks(fields, s) THEN "refused"
               ELSE IF CompositesGenerate(fields) THEN "generated" ELSE "panicked"
  /\ UNCHANGED <<ty, given, fields>>

Next ==
  \/ \E t \in Tokens : AddToken(t)
  \/ BuildField
  \/ \E s \in Rests : FinishStruct(s)

Spec == Init /\ [][Next]_vars

-----------------------------------------------------------------------------
(* Properties *)

BuiltFields == {fields[i] : i \in DOMAIN fields}

\* build and the Exit code generation: an account that the instruction creates, takes over
\* as zeroed or closes is a mutable one, whatever the order of its keywords, so that what
\* the handler did to it is written back or the account is closed at the end.
WrittenBackIfTouched ==
  \A f \in BuiltFields :
    f.group.constraints \cap {"Init", "Zeroed", "Close"} # {} => "Mut" \in f.group.constraints

\* build, "the account being initialized must sign": every account that init creates can
\* be created, because it signs, or its address is derived from seeds, or it is made by the
\* associated token program.
CreationIsSigned ==
  \A f \in BuiltFields :
    f.group.init # "none" =>
      \/ f.group.constraints \cap {"Signer", "Seeds"} # {}
      \/ f.group.init = "AssociatedToken"

\* What the keywords of a field ask for that its checks do not do.
Lost(f) ==
  {t \in f.given :
     \/ t \in TokenTokens /\ "TokenAccount" \notin f.group.constraints /\ f.group.init # "Token"
     \/ t \in AssociatedTokens /\ "AssociatedToken" \notin f.group.constraints
                               /\ f.group.init # "AssociatedToken"
     \/ t \in MintTokens /\ "Mint" \notin f.group.constraints /\ f.group.init # "Mint"
     \/ t = "seeds::program" /\ (f.group.init # "none" \/ "Seeds" \notin f.group.constraints)
     \/ t \in BumpTokens /\ "Seeds" \notin f.group.constraints
     \/ ~(ConstraintOf(t) \subseteq f.group.constraints)}

\* build and linearize together: a field that only checks an account loses none of its
\* keywords; with init, the keywords of a mint can be lost, when the account created is
\* another kind of account, and the program of the seeds.
LostOnlyToInit ==
  \A f \in BuiltFields :
    /\ f.group.init = "none" => Lost(f) = {}
    /\ Lost(f) \subseteq MintTokens \cup {"seeds::program"}
    /\ f.group.init = "Mint" => Lost(f) \subseteq {"seeds::program"}

\* linearize, "constraints with dependencies run after those without": the account is
\* created, or found to be zero, and deserialized, before any check reads it, and its
\* address is checked against the seeds before what it holds is.
AccountBeforeChecks ==
  \A f \in BuiltFields :
    LET list == linearize(f.group)
    IN \A i, j \in DOMAIN list :
         /\ list[i] \in {"Init", "Zeroed"} /\ list[j] \notin {"Init", "Zeroed"} => i < j
         /\ list[i] = "Seeds" /\ list[j] \in {"HasOne", "Raw", "Literal", "Owner"} => i < j

\* constraints_cross_checks: in a struct that is accepted every account that init creates
\* can be paid for: the system program is there, and the payer is not known to be
\* immutable.
CreationIsPaid ==
  result = "generated" /\ (\E f \in BuiltFields : f.group.init # "none") =>
    "system_program" \in struct.programs /\ struct.payer \in {"mutable", "composite"}

\* build and constraints_cross_checks together: an account that an accepted struct creates
\* can be created, with a signature and a payer, and is written back.
CreationSucceeds == WrittenBackIfTouched /\ CreationIsSigned /\ CreationIsPaid

\* build and linearize together: the list of checks of a field has what its keywords ask
\* for, in an order in which each finds what it reads.
ChecksAreWhole == LostOnlyToInit /\ AccountBeforeChecks
=============================================================================
