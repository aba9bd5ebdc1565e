------------------------------ MODULE TuiProofs ------------------------------
(* Proofs, for any number of environments, keys, key presses and commands in   *)
(* flight: lists and actions belong to the view they show up in, unless two    *)
(* environments' secrets were loaded at once; what the session replaced or     *)
(* deleted is not shown once nothing is in flight, unless two loads were in    *)
(* flight together; a view that says it is loading has a load in flight.       *)
EXTENDS Tui, FiniteSetTheorems, SequenceTheorems, TLAPS

-----------------------------------------------------------------------------
(* Sequences of the members of a set, and bags *)

LEMMA SetToSeqIs ==
    ASSUME NEW S, IsFiniteSet(S)
    PROVE  SetToSeq(S) \in [1..Cardinality(S) -> S] /\ Cardinality(S) \in Nat
<1>1. Cardinality(S) \in Nat /\ ExistsBijection(1..Cardinality(S), S)
  BY FS_CardinalityType
<1>2. PICK f \in Bijection(1..Cardinality(S), S) : TRUE
  BY <1>1 DEF ExistsBijection
<1>3. f \in [1..Cardinality(S) -> S] /\ IsInjective(f)
  BY <1>2 DEF Bijection, Injection, IsInjective
<1>4. \E g \in [1..Cardinality(S) -> S] : IsInjective(g)
  BY <1>3
<1>5. QED
  BY <1>1, <1>4 DEF SetToSeq

LEMMA AddToBag ==
    ASSUME NEW b, IsABag(b), NEW c
    PROVE  /\ BagToSet(b (+) Started(c)) = BagToSet(b) \cup {c}
           /\ BagToSet(b (+) EmptyBag) = BagToSet(b)
           /\ IsABag(b (+) Started(c)) /\ IsABag(b (+) EmptyBag)
<1>1. \A e \in DOMAIN b : b[e] \in Nat /\ b[e] > 0
  BY DEF IsABag
<1>2. /\ BagToSet(b (+) Started(c)) = BagToSet(b) \cup {c}
      /\ BagToSet(b (+) EmptyBag) = BagToSet(b)
  BY DEF BagToSet, Started, SetToBag, EmptyBag, (+)
<1>3. IsABag(b (+) Started(c))
  BY <1>1 DEF IsABag, Started, SetToBag, (+)
<1>4. IsABag(b (+) EmptyBag)
  BY <1>1 DEF IsABag, EmptyBag, SetToBag, (+)
<1>5. QED
  BY <1>2, <1>3, <1>4

LEMMA TakeFromBag ==
    ASSUME NEW b, IsABag(b), NEW c
    PROVE  /\ BagToSet(b (-) Started(c)) \subseteq BagToSet(b)
           /\ BagToSet(b) \ {c} \subseteq BagToSet(b (-) Started(c))
           /\ IsABag(b (-) Started(c))
<1>1. \A e \in DOMAIN b : b[e] \in Nat /\ b[e] > 0
  BY DEF IsABag
<1> DEFINE d == [e \in DOMAIN b |-> IF e \in DOMAIN Started(c)
                                    THEN b[e] - Started(c)[e] ELSE b[e]]
<1>2. DOMAIN Started(c) = {c} /\ Started(c)[c] = 1
  BY DEF Started, SetToBag
<1>3. \A e \in DOMAIN b : d[e] \in Int /\ (e # c => d[e] > 0)
  BY <1>1, <1>2
<1>4. b (-) Started(c) = [e \in {x \in DOMAIN d : d[x] > 0} |-> d[e]]
  BY DEF (-)
<1>5. DOMAIN d = DOMAIN b
  OBVIOUS
<1> HIDE DEF d
<1>6. QED
  BY <1>3, <1>4, <1>5 DEF BagToSet, IsABag

LEMMA NoBag == BagToSet(EmptyBag) = {} /\ IsABag(EmptyBag)
  BY DEF BagToSet, EmptyBag, SetToBag, IsABag

-----------------------------------------------------------------------------
(* The inductive invariant *)

Places == Kinds \cup Envs
Names == Kinds \cup {"project"} \cup Envs \cup Keys
Rows == [name : Names, version : Nat, scope : Places]
ViewTypes == [kind : Kinds, scope : Places, loading : BOOLEAN, rows : Seq(Rows)]
Listed == Kinds \ {"menu"}

\* A view of secrets shows an environment; any other kind of view has one scope.
PlaceOK(kind, scope) == IF kind = "secrets" THEN scope \in Envs ELSE scope = kind

RowOK(kind, row) ==
    /\ row \in Rows
    /\ kind = "menu" => row.name \in {"projects", "vault", "users", "audit"}
    /\ kind = "envs" => row.name \in Envs
    /\ kind \in {"secrets", "vault"} => row.name \in Keys /\ row.version > 0

RowsOK(kind, rows) ==
    /\ rows \in Seq(Rows)
    /\ \A n \in DOMAIN rows : RowOK(kind, rows[n])
    /\ kind \in AdminKinds => rows = <<>>

ViewOK(view) ==
    view \in ViewTypes /\ PlaceOK(view.kind, view.scope) /\ RowsOK(view.kind, view.rows)

StackOK(s) == s \in Seq(ViewTypes) /\ \A i \in 1 .. Len(s) : ViewOK(s[i])

CmdOK(c) ==
    \/ c.op \in {"load", "nav"} /\ c.kind \in Listed /\ PlaceOK(c.kind, c.scope)
    \/ c.op = "loaded" /\ c.kind \in Listed /\ c.ok \in BOOLEAN /\ RowsOK(c.kind, c.rows)
    \/ /\ c.op \in {"delete", "rollback"} /\ c.kind \in {"secrets", "vault"}
       /\ PlaceOK(c.kind, c.scope) /\ RowOK(c.kind, c.row)
    \/ c.op = "acted" /\ c.kind \in {"secrets", "vault"}

CmdsOK(b) == IsABag(b) /\ \A c \in BagToSet(b) : CmdOK(c)

Tables ==
    /\ newest \in [Scopes -> [Keys -> Nat]] /\ current \in [Scopes -> [Keys -> Nat]]
    /\ \A s \in Scopes, k \in Keys : current[s][k] \in {0, newest[s][k]}

\* What was replaced or deleted is not the live version, and never will be.
Gone ==
    /\ replaced \subseteq Scopes \X Keys \X Nat
    /\ \A s \in Scopes, k \in Keys, v \in Nat : <<s, k, v>> \in replaced =>
         v = 0 \/ (v <= newest[s][k] /\ v # current[s][k])

Typed == /\ StackOK(stack) /\ (Open => stack # <<>>)
         /\ CmdsOK(cmds) /\ Tables /\ Gone
         /\ failed \in BOOLEAN /\ overlap \in BOOLEAN /\ mixed \in BOOLEAN

Belongs(rows, scope) == \A n \in DOMAIN rows : rows[n].scope = scope
IsLoad(c) == c.op \in {"load", "loaded"}
Stale(rows, scope) ==
    \E n \in DOMAIN rows : <<scope, rows[n].name, rows[n].version>> \in replaced
Acted(c, kind) == c.op = "acted" /\ c.kind = kind

\* A load in flight of the kind of the view on top is for its environment.
PlacesMatch ==
    ~mixed /\ Open /\ Loads(Top) => \A c \in InFlight : ~Elsewhere(c, Top)

\* A load in flight is the one of the view on top, if that one loads at all.
LoadsMatch ==
    ~overlap /\ Open /\ Loads(Top) => \A c \in InFlight : IsLoad(c) =>
        /\ c.kind = Top.kind
        /\ c.op = "load" => c.scope = Top.scope
        /\ c.op = "loaded" => Belongs(c.rows, Top.scope)

\* A version that is gone is about to go from the list on top, too.
Fresh ==
    ~overlap /\ Open =>
        /\ Stale(Top.rows, Top.scope) /\ ~failed =>
              \E c \in InFlight : Acted(c, Top.kind) \/ IsLoad(c)
        /\ \A c \in InFlight :
              c.op = "loaded" /\ c.kind = Top.kind /\ Stale(c.rows, Top.scope) =>
                 \E d \in InFlight : Acted(d, Top.kind)

IndInv == Typed /\ ListsBelongToTheirView /\ PlacesMatch /\ LoadsMatch /\ Fresh

LEMMA PlaceHasOneKind ==
    ASSUME NEW kind \in Kinds, NEW scope \in Scopes, PlaceOK(kind, scope)
    PROVE  /\ kind \in {"secrets", "vault"}
           /\ \A other \in Kinds : PlaceOK(other, scope) => other = kind
<1>1. Envs \cap Kinds = {} /\ "vault" \in Kinds /\ Vault = "vault"
  BY TuiAssumption DEF Vault, Kinds
<1>2. QED
  BY <1>1 DEF PlaceOK, Scopes

\* The view on top.
LEMMA TopIs ==
    ASSUME NEW s, StackOK(s), s # <<>>
    PROVE  /\ Len(s) \in 1 .. Len(s) /\ Len(s) \in Nat /\ Len(s) \in DOMAIN s
           /\ ViewOK(s[Len(s)]) /\ s[Len(s)].kind \in Kinds
<1>1. Len(s) \in Nat /\ Len(s) # 0 /\ DOMAIN s = 1 .. Len(s)
  BY DEF StackOK
<1>2. Len(s) \in 1 .. Len(s)
  BY <1>1
<1>3. QED
  BY <1>1, <1>2 DEF StackOK, ViewOK, ViewTypes

LEMMA InitInv == Init => IndInv
<1> SUFFICES ASSUME Init PROVE IndInv
  OBVIOUS
<1>1. StackOK(stack) /\ ~Open
  BY DEF Init, StackOK, Open, Roles
<1>2. CmdsOK(cmds) /\ InFlight = {}
  BY NoBag DEF Init, CmdsOK, InFlight
<1>3. Tables /\ Gone
  BY TuiAssumption DEF Init, Tables, Gone
<1>4. ListsBelongToTheirView /\ PlacesMatch /\ LoadsMatch /\ Fresh
  BY <1>1, <1>2 DEF Init, ListsBelongToTheirView, PlacesMatch, LoadsMatch, Fresh
<1>5. QED
  BY <1>1, <1>2, <1>3, <1>4 DEF Init, IndInv, Typed

-----------------------------------------------------------------------------
(* A view comes on top, or loads again *)

\* A list with something stale is one of secrets, and such a view loads.
LEMMA StaleIsSecrets ==
    ASSUME Gone, NEW view, ViewOK(view), NEW rows, Stale(rows, view.scope)
    PROVE  view.kind \in {"secrets", "vault"} /\ Loads(view)
<1>1. view.scope \in Scopes
  BY DEF Gone, Stale
<1>2. view.kind \in {"secrets", "vault"}
  BY <1>1, PlaceHasOneKind DEF ViewOK, ViewTypes
<1>3. QED
  BY <1>2 DEF Loads, AdminKinds

LEMMA ShowTopInv ==
    ASSUME IndInv, Open, NEW base, StackOK(base), base # <<>>,
           ~mixed => \A i \in DOMAIN base : Belongs(base[i].rows, base[i].scope),
           NEW rest, CmdsOK(rest), BagToSet(rest) \subseteq InFlight,
           ShowTop(base, rest), UNCHANGED <<server, auth, replaced>>
    PROVE  IndInv'
<1> DEFINE n == Len(base)
           view == base[n]
<1>1. n \in 1 .. n /\ n \in DOMAIN base /\ n \in Nat /\ ViewOK(view)
      /\ DOMAIN base = 1 .. n /\ base \in Seq(ViewTypes)
  BY TopIs DEF StackOK
<1>0. PICK new : new = Initialised(view)
  OBVIOUS
<1>2. /\ new.kind = view.kind /\ new.scope = view.scope /\ new.rows = view.rows
      /\ new \in ViewTypes
  <2>1. view \in ViewTypes
    BY <1>1 DEF ViewOK
  <2>2. QED
    BY <1>0, <2>1 DEF Initialised, ViewTypes
<1>3. ViewOK(new)
  BY <1>1, <1>2 DEF ViewOK
<1>4. stack' = [base EXCEPT ![n] = new]
  BY <1>0 DEF ShowTop
<1>5. /\ stack' \in Seq(ViewTypes) /\ Len(stack') = n /\ stack'[n] = new
      /\ DOMAIN stack' = DOMAIN base
      /\ \A i \in 1 .. n : i # n => stack'[i] = base[i]
  BY <1>1, <1>2, <1>4
<1>6. StackOK(stack') /\ stack' # <<>> /\ Top' = new
  <2>1. \A i \in 1 .. n : ViewOK(stack'[i])
    BY <1>3, <1>5 DEF StackOK
  <2>0. n # 0
    <3>1. n \in Nat /\ n \in 1 .. n
      BY <1>1
    <3> HIDE DEF n
    <3>2. QED
      BY <3>1
  <2>2. n # 0 /\ Len(stack') = n /\ stack' \in Seq(ViewTypes) /\ stack'[n] = new
    BY <1>5, <2>0, Zenon
  <2> HIDE DEF n
  <2>3. StackOK(stack')
    BY <2>1, <2>2 DEF StackOK
  <2>4. stack' # <<>>
    BY <2>2
  <2>5. QED
    BY <2>2, <2>3, <2>4 DEF Top
<1>7. ~mixed => \A i \in DOMAIN stack' : Belongs(stack'[i].rows, stack'[i].scope)
  BY <1>1, <1>2, <1>5
<1>8. /\ InFlight' = BagToSet(rest) \cup (IF Loads(view) THEN {LoadCmd(view)} ELSE {})
      /\ IsABag(cmds')
  BY AddToBag DEF ShowTop, InitCmds, CmdsOK, InFlight
<1>9. CmdsOK(cmds')
  <2>1. Loads(view) => CmdOK(LoadCmd(view))
    BY <1>1 DEF Loads, LoadCmd, CmdOK, ViewOK, ViewTypes, Listed
  <2>2. QED
    BY <1>8, <2>1 DEF CmdsOK, InFlight
<1>10. /\ failed' = FALSE /\ overlap' \in BOOLEAN /\ mixed' \in BOOLEAN
       /\ ~overlap' => ~overlap /\ (Loads(view) => \A c \in BagToSet(rest) : ~IsLoad(c))
       /\ ~mixed' => ~mixed /\ (Loads(view) => \A c \in BagToSet(rest) : ~Elsewhere(c, view))
  BY DEF ShowTop, IndInv, Typed, IsLoad
<1>11. Typed'
  BY <1>6, <1>9, <1>10 DEF IndInv, Typed, Tables, Gone, server
<1>12. ListsBelongToTheirView'
  BY <1>7, <1>8, <1>10 DEF IndInv, ListsBelongToTheirView, Belongs, LoadCmd
<1>13. Loads(new)' <=> Loads(view)
  BY <1>2 DEF Loads, IsAdmin
<1>14. LoadsMatch'
  BY <1>2, <1>6, <1>8, <1>10, <1>13 DEF LoadsMatch, LoadCmd, IsLoad
<1>15. PlacesMatch'
  <2>1. SUFFICES ASSUME ~mixed', Loads(view), NEW c \in InFlight' PROVE ~Elsewhere(c, new)
    BY <1>6, <1>13 DEF PlacesMatch, Elsewhere
  <2>2. CASE c = LoadCmd(view)
    BY <1>2, <2>2 DEF LoadCmd, Elsewhere
  <2>3. CASE c \in BagToSet(rest)
    BY <1>2, <1>10, <2>1, <2>3 DEF Elsewhere
  <2>4. QED
    BY <1>8, <2>1, <2>2, <2>3
<1>16. ASSUME ~overlap' PROVE Fresh'
  <2>1. Gone'
    BY <1>11 DEF Typed
  <2>2. ASSUME Stale(new.rows, new.scope) PROVE \E c \in InFlight' : IsLoad(c)
    <3>1. Stale(view.rows, view.scope)
      BY <1>2, <2>2 DEF Stale
    <3>2. Loads(view)
      BY <1>1, <3>1, StaleIsSecrets DEF IndInv, Typed
    <3>3. LoadCmd(view) \in InFlight' /\ IsLoad(LoadCmd(view))
      BY <1>8, <3>2 DEF LoadCmd, IsLoad
    <3>4. QED
      BY <3>3
  <2>3. ASSUME NEW c \in InFlight', c.op = "loaded", c.kind = new.kind
        PROVE  ~Stale(c.rows, new.scope)
    <3>1. c \in BagToSet(rest) /\ ~Loads(view)
      BY <1>8, <1>10, <1>16, <2>3 DEF LoadCmd, IsLoad
    <3>2. c.kind \in Listed /\ RowsOK(c.kind, c.rows)
      BY <3>1, <2>3 DEF CmdsOK, CmdOK
    <3>3. c.kind \in AdminKinds
      BY <1>2, <2>3, <3>1, <3>2 DEF Loads, Listed
    <3>4. c.rows = <<>>
      BY <3>2, <3>3 DEF RowsOK
    <3>5. QED
      BY <3>4 DEF Stale
  <2>4. \A rows : Stale(rows, new.scope)' <=> Stale(rows, new.scope)
    BY DEF Stale
  <2>5. QED
    BY <1>6, <2>2, <2>3, <2>4 DEF Fresh
<1>17. Fresh'
  BY <1>16 DEF Fresh
<1>18. QED
  BY <1>11, <1>12, <1>14, <1>17, <1>15 DEF IndInv

-----------------------------------------------------------------------------
(* A key starts a command *)

LEMMA DispatchInv ==
    ASSUME IndInv, NEW c, CmdOK(c), c.op \in {"nav", "delete", "rollback"},
           ~mixed /\ c.op # "nav" => c.row.scope = c.scope,
           Dispatch(c), Untouched
    PROVE  IndInv'
<1>1. CmdsOK(cmds') /\ InFlight' = InFlight \cup {c} /\ ~IsLoad(c)
  BY AddToBag DEF Dispatch, IndInv, Typed, CmdsOK, InFlight, IsLoad
<1>2. UNCHANGED <<stack, failed, overlap, mixed, newest, current, auth, replaced>>
  BY DEF Dispatch, Untouched, server
<1>3. Typed'
  BY <1>1, <1>2 DEF IndInv, Typed, Tables, Gone, Open
<1>4. ListsBelongToTheirView'
  BY <1>1, <1>2 DEF IndInv, ListsBelongToTheirView
<1>5. LoadsMatch' /\ PlacesMatch'
  BY <1>1, <1>2 DEF IndInv, LoadsMatch, PlacesMatch, Elsewhere, IsLoad, Open, Loads, IsAdmin, Top
<1>6. Fresh'
  <2>1. \A d, kind : Acted(d, kind) => d # c
    BY DEF Acted
  <2>2. c.op # "loaded"
    OBVIOUS
  <2>3. QED
    BY <1>1, <1>2, <2>1, <2>2 DEF IndInv, Fresh, Stale, Open, Top
<1>7. QED
  BY <1>3, <1>4, <1>5, <1>6 DEF IndInv

\* The rows of the view on top.
LEMMA SelectableRows ==
    ASSUME IndInv, Open, NEW row \in Selectable
    PROVE  /\ ViewOK(Top) /\ RowOK(Top.kind, row)
           /\ ~mixed => row.scope = Top.scope
<1>1. /\ ViewOK(Top) /\ Len(stack) \in DOMAIN stack
      /\ Top = stack[Len(stack)]
  BY TopIs DEF IndInv, Typed, Top
<1>2. PICK n \in DOMAIN Top.rows : row = Top.rows[n]
  BY DEF Selectable, Range
<1>3. QED
  BY <1>1, <1>2 DEF ViewOK, RowsOK, IndInv, ListsBelongToTheirView

LEMMA EnterInv == ASSUME IndInv, PressEnter PROVE IndInv'
<1>1. PICK row \in Selectable :
         \/ Top.kind = "menu" /\ Dispatch(NavCmd(row.name, row.name))
         \/ Top.kind = "projects" /\ Dispatch(NavCmd("envs", "envs"))
         \/ Top.kind = "envs" /\ Dispatch(NavCmd("secrets", row.name))
  BY DEF PressEnter
<1>2. RowOK(Top.kind, row) /\ Untouched
  BY SelectableRows DEF PressEnter
<1>3. CASE Top.kind = "menu" /\ Dispatch(NavCmd(row.name, row.name))
  <2>1. CmdOK(NavCmd(row.name, row.name)) /\ NavCmd(row.name, row.name).op = "nav"
    BY <1>2, <1>3 DEF RowOK, NavCmd, CmdOK, Listed, Kinds, AdminKinds, PlaceOK
  <2>2. QED
    BY <1>2, <1>3, <2>1, DispatchInv
<1>4. CASE Dispatch(NavCmd("envs", "envs"))
  <2>1. CmdOK(NavCmd("envs", "envs")) /\ NavCmd("envs", "envs").op = "nav"
    BY DEF NavCmd, CmdOK, Listed, Kinds, PlaceOK
  <2>2. QED
    BY <1>2, <1>4, <2>1, DispatchInv
<1>5. CASE Top.kind = "envs" /\ Dispatch(NavCmd("secrets", row.name))
  <2>1. CmdOK(NavCmd("secrets", row.name)) /\ NavCmd("secrets", row.name).op = "nav"
    BY <1>2, <1>5 DEF RowOK, NavCmd, CmdOK, Listed, Kinds, PlaceOK
  <2>2. QED
    BY <1>2, <1>5, <2>1, DispatchInv
<1>6. QED
  BY <1>1, <1>3, <1>4, <1>5

LEMMA ActInv ==
    ASSUME IndInv, Open, MayAct, NEW row \in Selectable, NEW what \in {"delete", "rollback"},
           NEW target, Dispatch(ActCmd(what, row, target)), Untouched
    PROVE  IndInv'
<1> DEFINE c == ActCmd(what, row, target)
<1>1. /\ c.op = what /\ c.kind = Top.kind /\ c.scope = Top.scope /\ c.row = row
  BY DEF ActCmd
<1>2. ViewOK(Top) /\ RowOK(Top.kind, row) /\ (~mixed => row.scope = Top.scope)
  BY SelectableRows
<1>3. Top.kind \in {"secrets", "vault"}
  BY DEF MayAct
<1> HIDE DEF c
<1>4. CmdOK(c)
  BY <1>1, <1>2, <1>3 DEF CmdOK, ViewOK
<1>5. QED
  BY <1>1, <1>2, <1>4, DispatchInv DEF c

-----------------------------------------------------------------------------
(* A command runs *)

LEMMA ReplaceFacts ==
    ASSUME CmdsOK(cmds), NEW cmd \in InFlight, NEW m, CmdOK(m), Replace(cmd, Started(m))
    PROVE  /\ CmdsOK(cmds') /\ InFlight' \subseteq InFlight \cup {m}
           /\ InFlight \ {cmd} \subseteq InFlight'
           /\ Open => m \in InFlight'
<1>1. PICK rest : rest = cmds (-) Started(cmd)
  OBVIOUS
<1>2. /\ IsABag(rest) /\ BagToSet(rest) \subseteq InFlight
      /\ InFlight \ {cmd} \subseteq BagToSet(rest)
  BY <1>1, TakeFromBag DEF CmdsOK, InFlight
<1>3. cmds' = rest (+) (IF Open THEN Started(m) ELSE EmptyBag)
  BY <1>1 DEF Replace
<1>4. /\ IsABag(cmds')
      /\ InFlight' = BagToSet(rest) \cup (IF Open THEN {m} ELSE {})
  BY <1>2, <1>3, AddToBag DEF InFlight
<1>5. \A c \in InFlight' : CmdOK(c)
  BY <1>2, <1>4 DEF CmdsOK, InFlight
<1>6. QED
  BY <1>2, <1>4, <1>5 DEF CmdsOK, InFlight

\* A list is of its kind and of its place, and shows nothing that is gone.
LEMMA ListingIs ==
    ASSUME Tables, Gone, NEW kind \in Listed, NEW scope, PlaceOK(kind, scope)
    PROVE  /\ RowsOK(kind, Listing(kind, scope))
           /\ Belongs(Listing(kind, scope), scope)
           /\ ~Stale(Listing(kind, scope), scope)
<1>1. scope \in Places
  BY DEF Places, PlaceOK, Listed
<1>2. CASE kind = "projects"
  <2>1. Listing(kind, scope) = <<Row("project", 0, scope)>>
    BY <1>2 DEF Listing
  <2>2. Row("project", 0, scope) \in Rows
    BY <1>1 DEF Row, Rows, Names
  <2>3. scope \notin Scopes
    BY <1>2, TuiAssumption DEF PlaceOK, Scopes, Vault, Kinds
  <2>4. PICK r : r = Row("project", 0, scope)
    OBVIOUS
  <2>5. /\ <<r>> \in Seq(Rows) /\ r \in Rows /\ r.scope = scope
        /\ \A n \in DOMAIN <<r>> : <<r>>[n] = r
    BY <2>2, <2>4 DEF Row
  <2>6. ~Stale(<<r>>, scope)
    BY <2>3 DEF Stale, Gone
  <2>7. RowsOK(kind, <<r>>) /\ Belongs(<<r>>, scope)
    BY <1>2, <2>5 DEF RowsOK, RowOK, Belongs, AdminKinds
  <2>8. QED
    BY <2>1, <2>4, <2>6, <2>7
<1>3. CASE kind = "envs"
  <2>1. PICK order : order = SetToSeq(Envs)
    OBVIOUS
  <2>2. order \in [1 .. Cardinality(Envs) -> Envs] /\ Cardinality(Envs) \in Nat
    BY <2>1, SetToSeqIs, TuiAssumption
  <2>3. PICK rows : rows = [i \in DOMAIN order |-> Row(order[i], 0, scope)]
    OBVIOUS
  <2>4. Listing(kind, scope) = rows
    BY <1>3, <2>1, <2>3 DEF Listing
  <2>5. /\ DOMAIN rows = 1 .. Cardinality(Envs)
        /\ \A n \in DOMAIN rows : /\ rows[n] \in Rows /\ rows[n].scope = scope
                                  /\ rows[n].name \in Envs
    BY <1>1, <2>2, <2>3 DEF Row, Rows, Names
  <2>6. rows \in Seq(Rows)
    BY <2>2, <2>3, <2>5
  <2>7. scope \notin Scopes
    BY <1>3, TuiAssumption DEF PlaceOK, Scopes, Vault, Kinds
  <2>8. QED
    BY <1>3, <2>4, <2>5, <2>6, <2>7 DEF RowsOK, RowOK, Belongs, Stale, Gone, AdminKinds
<1>4. CASE kind \in {"secrets", "vault"}
  <2>1. scope \in Scopes
    BY <1>4 DEF PlaceOK, Scopes, Vault
  <2>2. PICK live : live = {k \in Keys : current[scope][k] > 0}
    OBVIOUS
  <2>3. IsFiniteSet(live) /\ live \subseteq Keys
    BY <2>2, FS_Subset, TuiAssumption
  <2>4. PICK alive : alive = SetToSeq(live)
    OBVIOUS
  <2>5. alive \in [1 .. Cardinality(live) -> live] /\ Cardinality(live) \in Nat
    BY <2>3, <2>4, SetToSeqIs
  <2>6. PICK rows :
          rows = [i \in DOMAIN alive |-> Row(alive[i], current[scope][alive[i]], scope)]
    OBVIOUS
  <2>7. Listing(kind, scope) = rows
    BY <1>4, <2>2, <2>4, <2>6 DEF Listing
  <2>8. \A k \in live : k \in Keys /\ current[scope][k] \in Nat /\ current[scope][k] > 0
    BY <2>1, <2>2 DEF Tables
  <2>9. /\ DOMAIN rows = 1 .. Cardinality(live)
        /\ \A n \in DOMAIN rows :
             /\ rows[n] = Row(alive[n], current[scope][alive[n]], scope)
             /\ alive[n] \in live
    BY <2>5, <2>6
  <2>10. \A n \in DOMAIN rows :
             /\ rows[n] \in Rows /\ rows[n].scope = scope
             /\ rows[n].name \in Keys /\ rows[n].version > 0
             /\ rows[n].version = current[scope][rows[n].name]
    BY <1>1, <2>8, <2>9 DEF Row, Rows, Names
  <2>11. rows \in Seq(Rows)
    BY <2>5, <2>6, <2>10
  <2>12. ~Stale(rows, scope)
    <3>1. SUFFICES ASSUME NEW n \in DOMAIN rows
                   PROVE  <<scope, rows[n].name, rows[n].version>> \notin replaced
      BY DEF Stale
    <3>2. PICK k \in Keys, v \in Nat :
             /\ k = rows[n].name /\ v = rows[n].version
             /\ v = current[scope][k] /\ v # 0
      BY <2>1, <2>10 DEF Tables
    <3>3. <<scope, k, v>> \notin replaced
      BY <2>1, <3>2 DEF Gone
    <3>4. QED
      BY <3>2, <3>3
  <2>13. QED
    BY <1>4, <2>7, <2>10, <2>11, <2>12 DEF RowsOK, RowOK, Belongs, AdminKinds
<1>5. CASE kind \in AdminKinds
  <2>1. Listing(kind, scope) = <<>>
    BY <1>5 DEF Listing, AdminKinds
  <2>2. QED
    BY <1>5, <2>1 DEF RowsOK, RowOK, Belongs, Stale
<1>6. QED
  BY <1>2, <1>3, <1>4, <1>5 DEF Listed, Kinds

LEMMA RunLoadInv ==
    ASSUME IndInv, NEW cmd \in InFlight, RunLoad(cmd)
    PROVE  IndInv'
<1>0. PICK ok \in BOOLEAN :
        Replace(cmd, Started([op |-> "loaded", kind |-> cmd.kind, ok |-> ok,
                              rows |-> IF ok THEN Listing(cmd.kind, cmd.scope) ELSE <<>>]))
  BY DEF RunLoad
<1>1. PICK m : /\ m = [op |-> "loaded", kind |-> cmd.kind, ok |-> ok,
                       rows |-> IF ok THEN Listing(cmd.kind, cmd.scope) ELSE <<>>]
               /\ Replace(cmd, Started(m))
  BY <1>0
<1>2. UNCHANGED <<newest, current, auth, stack, failed, overlap, mixed, replaced>>
  BY DEF RunLoad, server
<1>3. /\ cmd.op = "load" /\ cmd.kind \in Listed /\ PlaceOK(cmd.kind, cmd.scope)
      /\ Tables /\ Gone
  BY DEF RunLoad, IndInv, Typed, CmdsOK, CmdOK, InFlight
<1>4. /\ m.op = "loaded" /\ m.kind = cmd.kind /\ m.ok \in BOOLEAN
      /\ m.rows = IF ok THEN Listing(cmd.kind, cmd.scope) ELSE <<>>
  BY <1>1
<1>5. /\ RowsOK(m.kind, m.rows) /\ Belongs(m.rows, cmd.scope)
      /\ ~Stale(m.rows, cmd.scope)
  <2>1. RowsOK(m.kind, <<>>) /\ Belongs(<<>>, cmd.scope) /\ ~Stale(<<>>, cmd.scope)
    BY DEF RowsOK, Belongs, Stale
  <2>2. QED
    BY <1>3, <1>4, <2>1, ListingIs
<1>6. CmdOK(m)
  BY <1>3, <1>4, <1>5 DEF CmdOK
<1>7. /\ CmdsOK(cmds') /\ InFlight' \subseteq InFlight \cup {m}
      /\ InFlight \ {cmd} \subseteq InFlight' /\ (Open => m \in InFlight')
  BY <1>1, <1>6, ReplaceFacts DEF IndInv, Typed
<1>8. Typed'
  BY <1>2, <1>7 DEF IndInv, Typed, Tables, Gone, Open
<1>9. ListsBelongToTheirView'
  BY <1>2, <1>4, <1>7 DEF IndInv, ListsBelongToTheirView
<1>10. LoadsMatch'
  <2>1. SUFFICES ASSUME ~overlap, Open, Loads(Top), NEW c \in InFlight', IsLoad(c)
                 PROVE  /\ c.kind = Top.kind
                        /\ c.op = "load" => c.scope = Top.scope
                        /\ c.op = "loaded" => Belongs(c.rows, Top.scope)
    BY <1>2 DEF LoadsMatch, Open, Loads, IsAdmin, Top
  <2>2. \A d \in InFlight : IsLoad(d) =>
          /\ d.kind = Top.kind
          /\ d.op = "load" => d.scope = Top.scope
          /\ d.op = "loaded" => Belongs(d.rows, Top.scope)
    BY <2>1 DEF IndInv, LoadsMatch
  <2>3. cmd.kind = Top.kind /\ cmd.scope = Top.scope
    BY <1>3, <2>2 DEF IsLoad
  <2>4. QED
    BY <1>4, <1>5, <1>7, <2>1, <2>2, <2>3
<1>11. PlacesMatch'
  <2>1. SUFFICES ASSUME ~mixed, Open, Loads(Top), NEW c \in InFlight' PROVE ~Elsewhere(c, Top)
    BY <1>2 DEF PlacesMatch, Elsewhere,
                            Open, Loads, IsAdmin, Top
  <2>2. \A d \in InFlight : ~Elsewhere(d, Top)
    BY <2>1 DEF IndInv, PlacesMatch
  <2>3. CASE c = m
    BY <1>3, <1>4, <1>5, <2>2, <2>3 DEF Elsewhere, Belongs
  <2>4. QED
    BY <1>7, <2>2, <2>3
<1>12. Fresh'
  <2>1. SUFFICES ASSUME ~overlap, Open
                 PROVE  /\ Stale(Top.rows, Top.scope) /\ ~failed =>
                             \E c \in InFlight' : Acted(c, Top.kind) \/ IsLoad(c)
                        /\ \A c \in InFlight' :
                             c.op = "loaded" /\ c.kind = Top.kind /\ Stale(c.rows, Top.scope) =>
                                \E d \in InFlight' : Acted(d, Top.kind)
    BY <1>2 DEF Fresh, Stale, Open, Top
  <2>2. m \in InFlight' /\ IsLoad(m)
    BY <1>4, <1>7, <2>1 DEF IsLoad
  <2>3. ASSUME NEW c \in InFlight', c.op = "loaded", c.kind = Top.kind, Stale(c.rows, Top.scope)
        PROVE  \E d \in InFlight' : Acted(d, Top.kind)
    <3>1. ViewOK(Top)
      BY <2>1, TopIs DEF IndInv, Typed, Top
    <3>2. Loads(Top)
      BY <1>3, <2>3, <3>1, StaleIsSecrets
    <3>3. cmd.scope = Top.scope
      BY <1>3, <2>1, <3>2 DEF IndInv, LoadsMatch, IsLoad
    <3>4. c # m /\ c \in InFlight
      BY <1>5, <1>7, <2>3, <3>3
    <3>5. PICK d \in InFlight : Acted(d, Top.kind)
      BY <2>1, <2>3, <3>4 DEF IndInv, Fresh
    <3>6. d # cmd
      BY <1>3, <3>5 DEF Acted
    <3>7. QED
      BY <1>7, <3>5, <3>6
  <2>4. QED
    BY <2>2, <2>3
<1>13. QED
  BY <1>8, <1>9, <1>10, <1>12, <1>11 DEF IndInv

\* A change of the tables: what is gone stays gone.
LEMMA EffectFacts ==
    ASSUME Tables, NEW scope \in Scopes, NEW key \in Keys,
           Upsert(scope, key) \/ SoftDelete(scope, key)
    PROVE  /\ Tables'
           /\ \A s \in Scopes, k \in Keys : newest[s][k] <= newest'[s][k]
           /\ \A s \in Scopes, k \in Keys, v \in Nat :
                v <= newest[s][k] /\ v # 0 /\ (v # current[s][k] \/ (s = scope /\ k = key))
                    => v # current'[s][k]
<1>1. /\ newest[scope][key] \in Nat /\ current[scope][key] \in Nat
      /\ newest \in [Scopes -> [Keys -> Nat]] /\ current \in [Scopes -> [Keys -> Nat]]
  BY DEF Tables
<1>2. CASE Upsert(scope, key)
  <2>1. /\ newest' = [newest EXCEPT ![scope][key] = newest[scope][key] + 1]
        /\ current' = [current EXCEPT ![scope][key] = newest[scope][key] + 1]
    BY <1>2 DEF Upsert
  <2>2. newest' \in [Scopes -> [Keys -> Nat]] /\ current' \in [Scopes -> [Keys -> Nat]]
    BY <1>1, <2>1
  <2>3. /\ newest'[scope][key] = newest[scope][key] + 1
        /\ current'[scope][key] = newest[scope][key] + 1
        /\ \A s \in Scopes, k \in Keys : s # scope \/ k # key =>
             newest'[s][k] = newest[s][k] /\ current'[s][k] = current[s][k]
    BY <1>1, <2>1
  <2>4. \A s \in Scopes, k \in Keys : newest[s][k] \in Nat /\ current[s][k] \in {0, newest[s][k]}
    BY DEF Tables
  <2>5. \A s \in Scopes, k \in Keys : current'[s][k] \in {0, newest'[s][k]}
    BY <2>3, <2>4
  <2>6. Tables'
    BY <2>2, <2>5 DEF Tables
  <2>7. \A s \in Scopes, k \in Keys : newest[s][k] <= newest'[s][k]
    BY <2>3, <2>4
  <2>8. ASSUME NEW s \in Scopes, NEW k \in Keys, NEW v \in Nat, v <= newest[s][k],
               v # current[s][k] \/ (s = scope /\ k = key)
        PROVE  v # current'[s][k]
    BY <2>3, <2>4, <2>8
  <2>9. QED
    BY <2>6, <2>7, <2>8
<1>3. CASE SoftDelete(scope, key)
  <2>1. newest' = newest /\ current' = [current EXCEPT ![scope][key] = 0]
    BY <1>3 DEF SoftDelete
  <2>2. current' \in [Scopes -> [Keys -> Nat]]
    BY <1>1, <2>1
  <2>3. /\ current'[scope][key] = 0
        /\ \A s \in Scopes, k \in Keys : s # scope \/ k # key => current'[s][k] = current[s][k]
    BY <1>1, <2>1
  <2>4. \A s \in Scopes, k \in Keys : newest[s][k] \in Nat /\ current[s][k] \in {0, newest[s][k]}
    BY DEF Tables
  <2>5. QED
    BY <1>1, <2>1, <2>2, <2>3, <2>4 DEF Tables
<1>4. QED
  BY <1>2, <1>3

LEMMA RunActionInv ==
    ASSUME IndInv, NEW cmd \in InFlight, RunAction(cmd)
    PROVE  IndInv'
<1>1. PICK m : m = [op |-> "acted", kind |-> cmd.kind] /\ Replace(cmd, Started(m))
  BY DEF RunAction
<1>2. UNCHANGED <<auth, stack, failed, overlap, mixed>>
  BY DEF RunAction
<1>3. /\ cmd.op \in {"delete", "rollback"} /\ cmd.kind \in {"secrets", "vault"}
      /\ PlaceOK(cmd.kind, cmd.scope) /\ RowOK(cmd.kind, cmd.row) /\ Tables /\ Gone
  BY DEF RunAction, IndInv, Typed, CmdsOK, CmdOK, InFlight
<1>4. cmd.scope \in Scopes /\ cmd.row.name \in Keys /\ cmd.kind \in Kinds
  BY <1>3 DEF PlaceOK, RowOK, Scopes, Vault, Kinds
<1>5. m.op = "acted" /\ m.kind = cmd.kind /\ CmdOK(m) /\ ~IsLoad(m)
  BY <1>1, <1>3 DEF CmdOK, IsLoad
<1>6. /\ CmdsOK(cmds') /\ InFlight' \subseteq InFlight \cup {m}
      /\ InFlight \ {cmd} \subseteq InFlight' /\ (Open => m \in InFlight')
  BY <1>1, <1>5, ReplaceFacts DEF IndInv, Typed
<1>7. PICK old \in Nat : old = current[cmd.scope][cmd.row.name]
  BY <1>3, <1>4 DEF Tables
<1>8. \/ UNCHANGED <<newest, current, replaced>>
      \/ /\ Upsert(cmd.scope, cmd.row.name) \/ SoftDelete(cmd.scope, cmd.row.name)
         /\ replaced' = replaced \cup {<<cmd.scope, cmd.row.name, old>>}
  BY <1>7 DEF RunAction, Effect
<1>9. Tables' /\ Gone'
  <2>1. CASE UNCHANGED <<newest, current, replaced>>
    BY <1>3, <2>1 DEF Tables, Gone
  <2>2. CASE /\ Upsert(cmd.scope, cmd.row.name) \/ SoftDelete(cmd.scope, cmd.row.name)
             /\ replaced' = replaced \cup {<<cmd.scope, cmd.row.name, old>>}
    <3>1. /\ Tables'
          /\ \A s \in Scopes, k \in Keys : newest[s][k] <= newest'[s][k]
          /\ \A s \in Scopes, k \in Keys, v \in Nat :
               v <= newest[s][k] /\ v # 0 /\
               (v # current[s][k] \/ (s = cmd.scope /\ k = cmd.row.name))
                   => v # current'[s][k]
      BY <1>3, <1>4, <2>2, EffectFacts
    <3>2. replaced' \subseteq Scopes \X Keys \X Nat
      BY <1>3, <1>4, <2>2 DEF Gone
    <3>3. ASSUME NEW s \in Scopes, NEW k \in Keys, NEW v \in Nat, <<s, k, v>> \in replaced', v # 0
          PROVE  v <= newest'[s][k] /\ v # current'[s][k]
      <4>1. /\ newest[s][k] \in Nat /\ newest'[s][k] \in Nat
            /\ current[s][k] \in {0, newest[s][k]}
        BY <1>3, <3>1 DEF Tables
      <4>2. v <= newest[s][k] /\ (v # current[s][k] \/ (s = cmd.scope /\ k = cmd.row.name))
        BY <1>3, <1>7, <2>2, <3>3, <4>1 DEF Gone
      <4>3. QED
        BY <3>1, <3>3, <4>1, <4>2
    <3>4. QED
      BY <3>1, <3>2, <3>3 DEF Gone
  <2>3. QED
    BY <1>8, <2>1, <2>2
<1>10. Typed'
  BY <1>2, <1>6, <1>9 DEF IndInv, Typed, Open
<1>11. ListsBelongToTheirView'
  BY <1>2, <1>5, <1>6 DEF IndInv, ListsBelongToTheirView
<1>12. LoadsMatch' /\ PlacesMatch'
  <2>1. ~Elsewhere(m, Top)
    BY <1>5 DEF Elsewhere
  <2>2. QED
    BY <1>2, <1>5, <1>6, <2>1 DEF IndInv, LoadsMatch, PlacesMatch, Elsewhere,
                            Open, Loads, IsAdmin, Top
<1>13. Fresh'
  <2>1. SUFFICES ASSUME ~overlap, Open
                 PROVE  /\ Stale(Top.rows, Top.scope)' /\ ~failed =>
                             \E c \in InFlight' : Acted(c, Top.kind) \/ IsLoad(c)
                        /\ \A c \in InFlight' :
                             c.op = "loaded" /\ c.kind = Top.kind /\ Stale(c.rows, Top.scope)' =>
                                \E d \in InFlight' : Acted(d, Top.kind)
    BY <1>2 DEF Fresh, Stale, Open, Top
  <2>2. m \in InFlight' /\ (cmd.kind = Top.kind => Acted(m, Top.kind))
    BY <1>5, <1>6, <2>1 DEF Acted
  <2>3. ASSUME NEW rows, Stale(rows, Top.scope)', cmd.kind # Top.kind
        PROVE  Stale(rows, Top.scope)
    <3>1. Top' = Top /\ ViewOK(Top)
      BY <1>2, <2>1, TopIs DEF IndInv, Typed, Top
    <3>2. Top.scope # cmd.scope
      BY <1>3, <1>4, <2>3, <3>1, PlaceHasOneKind DEF ViewOK, ViewTypes
    <3>3. PICK n \in DOMAIN rows : <<Top.scope, rows[n].name, rows[n].version>> \in replaced'
      BY <2>3, <3>1 DEF Stale
    <3>4. <<Top.scope, rows[n].name, rows[n].version>> # <<cmd.scope, cmd.row.name, old>>
      BY <3>2
    <3>5. <<Top.scope, rows[n].name, rows[n].version>> \in replaced
      BY <1>8, <3>3, <3>4
    <3>6. QED
      BY <3>5 DEF Stale
  <2>4. \A c : Acted(c, Top.kind) \/ IsLoad(c) => c # cmd
    BY <1>3 DEF Acted, IsLoad
  <2>5. ASSUME Stale(Top.rows, Top.scope)', ~failed, cmd.kind # Top.kind
        PROVE  \E c \in InFlight' : Acted(c, Top.kind) \/ IsLoad(c)
    <3>1. Stale(Top.rows, Top.scope)
      BY <1>2, <2>3, <2>5 DEF Top, Stale
    <3>2. QED
      BY <1>6, <2>1, <2>4, <2>5, <3>1 DEF IndInv, Fresh
  <2>6. ASSUME NEW c \in InFlight', c.op = "loaded", c.kind = Top.kind,
               Stale(c.rows, Top.scope)', cmd.kind # Top.kind
        PROVE  \E d \in InFlight' : Acted(d, Top.kind)
    <3>1. Stale(c.rows, Top.scope) /\ c \in InFlight
      BY <1>5, <1>6, <2>3, <2>6
    <3>2. QED
      BY <1>6, <2>1, <2>4, <2>6, <3>1 DEF IndInv, Fresh
  <2>7. QED
    BY <2>2, <2>5, <2>6
<1>14. QED
  BY <1>10, <1>11, <1>12, <1>13 DEF IndInv

-----------------------------------------------------------------------------
(* A message arrives *)

LEMMA TakenFacts ==
    ASSUME IndInv, NEW msg \in InFlight
    PROVE  /\ CmdsOK(cmds (-) Started(msg))
           /\ BagToSet(cmds (-) Started(msg)) \subseteq InFlight
           /\ InFlight \ {msg} \subseteq BagToSet(cmds (-) Started(msg))
  BY TakeFromBag DEF IndInv, Typed, CmdsOK, InFlight

LEMMA DeliverNavInv ==
    ASSUME IndInv, NEW msg \in InFlight, DeliverNav(msg)
    PROVE  IndInv'
<1>1. PICK view : view = NewView(msg.kind, msg.scope, <<>>)
  OBVIOUS
<1>2. Open /\ msg.kind \in Listed /\ PlaceOK(msg.kind, msg.scope)
      /\ UNCHANGED <<server, auth, replaced>>
  BY DEF DeliverNav, IndInv, Typed, CmdsOK, CmdOK, InFlight
<1>3. ViewOK(view) /\ view.rows = <<>> /\ view \in ViewTypes
  <2>1. msg.scope \in Places /\ msg.kind \in Kinds
    BY <1>2 DEF PlaceOK, Places, Listed
  <2>2. <<>> \in Seq(Rows) /\ RowsOK(msg.kind, <<>>)
    BY DEF RowsOK
  <2>3. QED
    BY <1>1, <1>2, <2>1, <2>2 DEF NewView, ViewOK, ViewTypes
<1>4. PICK base : base = Append(stack, view)
  OBVIOUS
<1>5. stack \in Seq(ViewTypes) /\ \A i \in 1 .. Len(stack) : ViewOK(stack[i])
  BY DEF IndInv, Typed, StackOK
<1>6. /\ base \in Seq(ViewTypes) /\ Len(base) = Len(stack) + 1 /\ DOMAIN base = 1 .. Len(base)
      /\ \A i \in 1 .. Len(base) : base[i] = IF i = Len(base) THEN view ELSE stack[i]
      /\ \A i \in 1 .. Len(base) : i # Len(base) => i \in 1 .. Len(stack) /\ i \in DOMAIN stack
      /\ base # <<>>
  BY <1>3, <1>4, <1>5
<1>7. StackOK(base)
  BY <1>3, <1>5, <1>6 DEF StackOK
<1>8. ~mixed => \A i \in DOMAIN base : Belongs(base[i].rows, base[i].scope)
  BY <1>3, <1>6 DEF IndInv, ListsBelongToTheirView, Belongs
<1>9. ShowTop(base, cmds (-) Started(msg))
  BY <1>1, <1>4 DEF DeliverNav
<1>10. QED
  BY <1>2, <1>6, <1>7, <1>8, <1>9, TakenFacts, ShowTopInv

LEMMA DeliverLoadedInv ==
    ASSUME IndInv, NEW msg \in InFlight, DeliverLoaded(msg)
    PROVE  IndInv'
<1>1. /\ Open /\ msg.op = "loaded" /\ msg.kind \in Listed /\ msg.ok \in BOOLEAN
      /\ RowsOK(msg.kind, msg.rows)
      /\ UNCHANGED <<newest, current, auth, overlap, mixed, replaced>>
  BY DEF DeliverLoaded, IndInv, Typed, CmdsOK, CmdOK, InFlight, server
<1>2. /\ CmdsOK(cmds') /\ InFlight' \subseteq InFlight
      /\ InFlight \ {msg} \subseteq InFlight'
  BY TakenFacts DEF DeliverLoaded, InFlight
<1>3. /\ ViewOK(Top) /\ StackOK(stack) /\ stack # <<>>
      /\ Len(stack) \in 1 .. Len(stack) /\ Len(stack) \in DOMAIN stack
  BY <1>1, TopIs DEF IndInv, Typed, Top
<1>4. \A d : Acted(d, Top.kind) => d # msg
  BY <1>1 DEF Acted
<1>5. ~overlap => \A c \in InFlight' :
          c.op = "loaded" /\ c.kind = Top.kind /\ Stale(c.rows, Top.scope) =>
             \E d \in InFlight' : Acted(d, Top.kind)
  BY <1>1, <1>2, <1>4 DEF IndInv, Fresh
<1>6. CASE Top.kind # msg.kind
  <2>1. stack' = stack /\ failed' = failed /\ Top' = Top
    BY <1>6 DEF DeliverLoaded, Top
  <2>2. Typed'
    BY <1>1, <1>2, <2>1 DEF IndInv, Typed, Tables, Gone, Open
  <2>3. ListsBelongToTheirView' /\ LoadsMatch' /\ PlacesMatch'
    BY <1>1, <1>2, <2>1 DEF IndInv, ListsBelongToTheirView, LoadsMatch, PlacesMatch, Elsewhere,
                            Open, Loads, IsAdmin
  <2>4. ~overlap => ~Stale(Top.rows, Top.scope)
    <3>1. Stale(Top.rows, Top.scope) => Loads(Top)
      BY <1>3, StaleIsSecrets DEF IndInv, Typed
    <3>2. QED
      BY <1>1, <1>6, <3>1 DEF IndInv, LoadsMatch, IsLoad
  <2>5. Fresh'
    BY <1>1, <1>5, <2>1, <2>4 DEF Fresh, Stale
  <2>6. QED
    BY <2>2, <2>3, <2>5 DEF IndInv
<1>7. CASE Top.kind = msg.kind
  <2>1. PICK new : new = [Top EXCEPT !.rows = IF msg.ok THEN msg.rows ELSE @, !.loading = FALSE]
    OBVIOUS
  <2>2. /\ stack' = [stack EXCEPT ![Len(stack)] = new] /\ failed' = ~msg.ok
    BY <1>7, <2>1 DEF DeliverLoaded
  <2>3. /\ new \in ViewTypes /\ new.kind = Top.kind /\ new.scope = Top.scope
        /\ new.rows = IF msg.ok THEN msg.rows ELSE Top.rows
    BY <1>1, <1>3, <2>1 DEF ViewOK, ViewTypes, RowsOK
  <2>4. ViewOK(new)
    BY <1>1, <1>3, <1>7, <2>3 DEF ViewOK
  <2>5. /\ stack' \in Seq(ViewTypes) /\ Len(stack') = Len(stack) /\ DOMAIN stack' = DOMAIN stack
        /\ \A i \in DOMAIN stack : stack'[i] = IF i = Len(stack) THEN new ELSE stack[i]
        /\ DOMAIN stack = 1 .. Len(stack)
    BY <1>3, <2>2, <2>3 DEF StackOK
  <2>6. Top' = new
    BY <1>3, <2>5 DEF Top
  <2>7. StackOK(stack') /\ stack' # <<>>
    <3>1. \A i \in 1 .. Len(stack') : ViewOK(stack'[i])
      BY <1>3, <2>4, <2>5 DEF StackOK
    <3>2. Len(stack') # 0
      BY <1>3, <2>5 DEF StackOK
    <3>3. QED
      BY <2>5, <3>1, <3>2 DEF StackOK
  <2>8. Typed'
    BY <1>1, <1>2, <2>2, <2>7 DEF IndInv, Typed, Tables, Gone
  <2>9. ~mixed => Belongs(new.rows, Top.scope)
    <3>1. ~mixed => Belongs(Top.rows, Top.scope)
      BY <1>3 DEF IndInv, ListsBelongToTheirView, Belongs, Top
    <3>2. ~mixed /\ Loads(Top) => Belongs(msg.rows, Top.scope)
      BY <1>1, <1>7 DEF IndInv, PlacesMatch, Elsewhere, Belongs
    <3>3. ~Loads(Top) => Belongs(msg.rows, Top.scope)
      BY <1>1, <1>7 DEF Loads, Listed, RowsOK, Belongs
    <3>4. QED
      BY <2>3, <3>1, <3>2, <3>3
  <2>10. ListsBelongToTheirView'
    <3>1. ~mixed => \A i \in DOMAIN stack' : Belongs(stack'[i].rows, stack'[i].scope)
      BY <1>3, <2>3, <2>5, <2>9 DEF IndInv, ListsBelongToTheirView, Belongs
    <3>2. QED
      BY <1>1, <1>2, <3>1 DEF IndInv, ListsBelongToTheirView, Belongs
  <2>11. LoadsMatch' /\ PlacesMatch'
    <3>1. Loads(Top)' => Loads(Top)
      BY <1>1, <2>3, <2>6 DEF Loads, IsAdmin
    <3>2. LoadsMatch'
      BY <1>1, <1>2, <2>3, <2>6, <3>1 DEF IndInv, LoadsMatch
    <3>3. PlacesMatch'
      BY <1>1, <1>2, <2>3, <2>6, <3>1 DEF IndInv, PlacesMatch, Elsewhere
    <3>4. QED
      BY <3>2, <3>3
  <2>12. ~overlap /\ ~failed' /\ Stale(new.rows, new.scope) =>
            \E d \in InFlight' : Acted(d, Top.kind)
    <3>1. SUFFICES ASSUME ~overlap, msg.ok, Stale(msg.rows, Top.scope)
                   PROVE  \E d \in InFlight' : Acted(d, Top.kind)
      BY <1>1, <2>2, <2>3
    <3>2. PICK d \in InFlight : Acted(d, Top.kind)
      BY <1>1, <1>7, <3>1 DEF IndInv, Fresh
    <3>3. QED
      BY <1>2, <1>4, <3>2
  <2>13. \A rows, scope : Stale(rows, scope)' <=> Stale(rows, scope)
    BY <1>1 DEF Stale
  <2>14. Fresh'
    BY <1>1, <1>5, <2>3, <2>6, <2>12, <2>13 DEF Fresh
  <2>15. QED
    BY <2>8, <2>10, <2>11, <2>14 DEF IndInv
<1>8. QED
  BY <1>6, <1>7

LEMMA DeliverActedInv ==
    ASSUME IndInv, NEW msg \in InFlight, DeliverActed(msg)
    PROVE  IndInv'
<1>1. Open /\ msg.op = "acted" /\ UNCHANGED <<server, newest, current, auth, replaced>>
  BY DEF DeliverActed, server
<1>2. CASE Top.kind = msg.kind
  <2>1. StackOK(stack) /\ stack # <<>> /\ ShowTop(stack, cmds (-) Started(msg))
    BY <1>1, <1>2 DEF DeliverActed, IndInv, Typed
  <2>2. ~mixed => \A i \in DOMAIN stack : Belongs(stack[i].rows, stack[i].scope)
    BY DEF IndInv, ListsBelongToTheirView, Belongs
  <2>3. QED
    BY <1>1, <2>1, <2>2, TakenFacts, ShowTopInv
<1>3. CASE Top.kind # msg.kind
  <2>1. cmds' = cmds (-) Started(msg) /\ UNCHANGED <<stack, failed, overlap, mixed>>
    BY <1>3 DEF DeliverActed
  <2>2. /\ CmdsOK(cmds') /\ InFlight' \subseteq InFlight
        /\ InFlight \ {msg} \subseteq InFlight'
    BY <2>1, TakenFacts DEF InFlight
  <2>3. Typed'
    BY <1>1, <2>1, <2>2 DEF IndInv, Typed, Tables, Gone, Open
  <2>4. ListsBelongToTheirView' /\ LoadsMatch' /\ PlacesMatch'
    BY <1>1, <2>1, <2>2 DEF IndInv, ListsBelongToTheirView, LoadsMatch, PlacesMatch, Elsewhere,
                            Open, Loads, IsAdmin, Top
  <2>5. \A c : Acted(c, Top.kind) \/ IsLoad(c) => c # msg
    BY <1>1, <1>3 DEF Acted, IsLoad
  <2>6. Fresh'
    BY <1>1, <2>1, <2>2, <2>5 DEF IndInv, Fresh, Stale, Open, Top
  <2>7. QED
    BY <2>3, <2>4, <2>6 DEF IndInv
<1>4. QED
  BY <1>2, <1>3

-----------------------------------------------------------------------------
(* The other steps, and the theorems *)

\* What is left of a stack when its top is taken off.
LEMMA FrontIs ==
    ASSUME NEW s \in Seq(ViewTypes), Len(s) > 1
    PROVE  /\ Front(s) \in Seq(ViewTypes) /\ Len(Front(s)) = Len(s) - 1 /\ Front(s) # <<>>
           /\ \A i \in 1 .. Len(Front(s)) : Front(s)[i] = s[i]
<1>1. PICK n \in Int : n = Len(s) - 1 /\ Len(s) \in Nat /\ n >= 1
  OBVIOUS
<1>2. PICK base : base = SubSeq(s, 1, n)
  OBVIOUS
<1>3. \A i \in 1 .. n : s[i] \in ViewTypes
  BY <1>1
<1>4. /\ SubSeq(s, 1, n) \in Seq(ViewTypes)
      /\ Len(SubSeq(s, 1, n)) = IF 1 <= n THEN n - 1 + 1 ELSE 0
      /\ \A i \in 1 .. n - 1 + 1 : SubSeq(s, 1, n)[i] = s[1 + i - 1]
  BY <1>1, <1>3, SubSeqProperties
<1>5. base \in Seq(ViewTypes) /\ Len(base) = n /\ \A i \in 1 .. n : base[i] = s[i]
  BY <1>1, <1>2, <1>4
<1>6. base # <<>>
  BY <1>1, <1>5
<1>7. QED
  BY <1>1, <1>2, <1>5, <1>6 DEF Front

LEMMA PressBackInv == ASSUME IndInv, PressBack PROVE IndInv'
<1>1. PICK base : base = Front(stack)
  OBVIOUS
<1>2. /\ Open /\ Len(stack) > 1 /\ ShowTop(base, cmds) /\ UNCHANGED <<server, auth, replaced>>
  BY <1>1 DEF PressBack, Untouched
<1>3. /\ stack \in Seq(ViewTypes) /\ Len(stack) \in Nat
      /\ \A i \in 1 .. Len(stack) : ViewOK(stack[i])
  BY DEF IndInv, Typed, StackOK
<1>4. /\ base \in Seq(ViewTypes) /\ Len(base) = Len(stack) - 1 /\ base # <<>>
      /\ \A i \in 1 .. Len(base) : base[i] = stack[i]
  BY <1>1, <1>2, <1>3, FrontIs
<1>5. StackOK(base)
  BY <1>3, <1>4 DEF StackOK
<1>6. ~mixed => \A i \in DOMAIN base : Belongs(base[i].rows, base[i].scope)
  BY <1>3, <1>4 DEF IndInv, ListsBelongToTheirView, Belongs
<1>7. CmdsOK(cmds) /\ BagToSet(cmds) \subseteq InFlight
  BY DEF IndInv, Typed, InFlight
<1>8. QED
  BY <1>2, <1>4, <1>5, <1>6, <1>7, ShowTopInv

LEMMA PressRefreshInv == ASSUME IndInv, PressRefresh PROVE IndInv'
<1>1. /\ Open /\ StackOK(stack) /\ stack # <<>> /\ CmdsOK(cmds) /\ BagToSet(cmds) \subseteq InFlight
      /\ ShowTop(stack, cmds) /\ UNCHANGED <<server, auth, replaced>>
  BY DEF PressRefresh, Untouched, IndInv, Typed, InFlight
<1>2. ~mixed => \A i \in DOMAIN stack : Belongs(stack[i].rows, stack[i].scope)
  BY DEF IndInv, ListsBelongToTheirView, Belongs
<1>3. QED
  BY <1>1, <1>2, ShowTopInv

LEMMA CloseInv == ASSUME IndInv, CloseSession PROVE IndInv'
<1>1. /\ auth' = "closed" /\ stack' = <<>>
      /\ cmds' = Restrict(cmds, {cmd \in InFlight : cmd.op \in {"delete", "rollback"}})
      /\ UNCHANGED <<newest, current, failed, overlap, mixed, replaced>>
  BY DEF CloseSession, server
<1>2. ~Open' /\ StackOK(stack')
  BY <1>1 DEF Open, Roles, StackOK
<1>3. InFlight' \subseteq InFlight /\ CmdsOK(cmds')
  <2>1. \A e \in DOMAIN cmds : cmds[e] \in Nat /\ cmds[e] > 0
    BY DEF IndInv, Typed, CmdsOK, IsABag
  <2>2. /\ DOMAIN cmds' \subseteq DOMAIN cmds /\ \A e \in DOMAIN cmds' : cmds'[e] = cmds[e]
        /\ cmds' = [e \in DOMAIN cmds' |-> cmds'[e]]
    BY <1>1 DEF Restrict, InFlight, BagToSet
  <2>3. IsABag(cmds')
    BY <2>1, <2>2 DEF IsABag
  <2>4. QED
    BY <2>2, <2>3 DEF IndInv, Typed, CmdsOK, InFlight, BagToSet
<1>4. Typed'
  BY <1>1, <1>2, <1>3 DEF IndInv, Typed, Tables, Gone
<1>5. DOMAIN stack' = {}
  BY <1>1
<1>6. ListsBelongToTheirView' /\ PlacesMatch' /\ LoadsMatch' /\ Fresh'
  BY <1>1, <1>2, <1>3, <1>5 DEF IndInv, ListsBelongToTheirView, PlacesMatch, LoadsMatch, Fresh
<1>7. QED
  BY <1>4, <1>6 DEF IndInv

\* The menu.
LEMMA LoginInv == ASSUME IndInv, Login PROVE IndInv'
<1>1. PICK role \in Roles : auth' = role /\ stack' = <<NewView("menu", "menu", MenuRows(role))>>
  BY DEF Login
<1>2. UNCHANGED <<newest, current, cmds, failed, overlap, mixed, replaced>>
  BY DEF Login, server
<1>3. PICK names : names = <<"projects", "vault">> \o
                             (IF role = "admin" THEN <<"users", "audit">> ELSE <<>>)
  OBVIOUS
<1>4. names \in Seq({"projects", "vault", "users", "audit"})
  <2>1. PICK admins : admins = IF role = "admin" THEN <<"users", "audit">> ELSE <<>>
    OBVIOUS
  <2>2. /\ <<"projects", "vault">> \in Seq({"projects", "vault", "users", "audit"})
        /\ <<"users", "audit">> \in Seq({"projects", "vault", "users", "audit"})
        /\ <<>> \in Seq({"projects", "vault", "users", "audit"})
    OBVIOUS
  <2>3. admins \in Seq({"projects", "vault", "users", "audit"})
    BY <2>1, <2>2
  <2>4. names = <<"projects", "vault">> \o admins
    BY <1>3, <2>1
  <2>5. QED
    BY <2>2, <2>3, <2>4, ConcatProperties
<1>5. PICK rows : rows = [i \in DOMAIN names |-> Row(names[i], 0, "menu")]
  OBVIOUS
<1>6. /\ DOMAIN rows = 1 .. Len(names) /\ Len(names) \in Nat
      /\ \A n \in DOMAIN rows : /\ rows[n] \in Rows /\ rows[n].scope = "menu"
                                /\ rows[n].name \in {"projects", "vault", "users", "audit"}
  BY <1>4, <1>5 DEF Row, Rows, Names, Places, Kinds, AdminKinds
<1>7. rows \in Seq(Rows)
  BY <1>5, <1>6
<1>8. PICK view : view = NewView("menu", "menu", rows)
  OBVIOUS
<1>9. stack' = <<view>>
  BY <1>1, <1>3, <1>5, <1>8 DEF MenuRows
<1>10. /\ view.kind = "menu" /\ view.scope = "menu" /\ view.rows = rows /\ view \in ViewTypes
  BY <1>7, <1>8 DEF NewView, ViewTypes, Kinds, Places
<1>11. ViewOK(view)
  BY <1>6, <1>7, <1>10 DEF ViewOK, RowsOK, RowOK, PlaceOK, AdminKinds
<1>12. /\ stack' \in Seq(ViewTypes) /\ Len(stack') = 1 /\ Top' = view /\ DOMAIN stack' = {1}
       /\ stack'[1] = view /\ stack' # <<>>
  BY <1>9, <1>10 DEF Top
<1>13. StackOK(stack')
  BY <1>11, <1>12 DEF StackOK
<1>14. Typed'
  BY <1>2, <1>12, <1>13 DEF IndInv, Typed, Tables, Gone
<1>15. ListsBelongToTheirView'
  BY <1>2, <1>6, <1>10, <1>12 DEF IndInv, ListsBelongToTheirView, InFlight
<1>16. LoadsMatch' /\ PlacesMatch'
  BY <1>10, <1>12 DEF LoadsMatch, PlacesMatch, Loads
<1>17. Fresh'
  <2>1. \A c \in InFlight : c.op = "loaded" => c.kind # "menu"
    BY DEF IndInv, Typed, CmdsOK, CmdOK, InFlight, Listed
  <2>2. "menu" \notin Scopes
    BY TuiAssumption DEF Scopes, Kinds, Vault
  <2>3. ~Stale(rows, "menu")'
    BY <1>2, <2>2 DEF Stale, IndInv, Typed, Gone
  <2>4. QED
    BY <1>2, <1>10, <1>12, <2>1, <2>3 DEF Fresh, InFlight, Stale
<1>18. QED
  BY <1>14, <1>15, <1>16, <1>17 DEF IndInv

LEMMA OtherWriterInv == ASSUME IndInv, OtherWriter PROVE IndInv'
<1>1. PICK scope \in Scopes, key \in Keys : Upsert(scope, key) \/ SoftDelete(scope, key)
  BY DEF OtherWriter
<1>2. UNCHANGED <<auth, stack, cmds, failed, overlap, mixed, replaced>>
  BY DEF OtherWriter
<1>3. Tables /\ Gone
  BY DEF IndInv, Typed
<1>4. /\ Tables'
      /\ \A s \in Scopes, k \in Keys : newest[s][k] <= newest'[s][k]
      /\ \A s \in Scopes, k \in Keys, v \in Nat :
           v <= newest[s][k] /\ v # 0 /\ (v # current[s][k] \/ (s = scope /\ k = key))
               => v # current'[s][k]
  BY <1>1, <1>3, EffectFacts
<1>5. Gone'
  <2>1. ASSUME NEW s \in Scopes, NEW k \in Keys, NEW v \in Nat, <<s, k, v>> \in replaced', v # 0
        PROVE  v <= newest'[s][k] /\ v # current'[s][k]
    <3>1. v <= newest[s][k] /\ v # current[s][k]
      BY <1>2, <1>3, <2>1 DEF Gone
    <3>2. newest[s][k] \in Nat /\ newest'[s][k] \in Nat
      BY <1>3, <1>4 DEF Tables
    <3>3. QED
      BY <1>4, <2>1, <3>1, <3>2
  <2>2. QED
    BY <1>2, <1>3, <2>1 DEF Gone
<1>6. Typed'
  BY <1>2, <1>4, <1>5 DEF IndInv, Typed, Open
<1>7. ListsBelongToTheirView' /\ PlacesMatch' /\ LoadsMatch' /\ Fresh'
  BY <1>2 DEF IndInv, ListsBelongToTheirView, PlacesMatch, LoadsMatch, Fresh, InFlight, Open, Loads,
              IsAdmin, Top, Stale, Elsewhere
<1>8. QED
  BY <1>6, <1>7 DEF IndInv

LEMMA NextInv == IndInv /\ [Next]_vars => IndInv'
<1> SUFFICES ASSUME IndInv, [Next]_vars PROVE IndInv'
  OBVIOUS
<1>1. CASE UNCHANGED vars
  BY <1>1 DEF vars, server, IndInv, Typed, Tables, Gone, ListsBelongToTheirView, PlacesMatch,
              LoadsMatch, Fresh, Elsewhere, InFlight, Open, Loads, IsAdmin, Top, Stale
<1>2. CASE PressDelete
  BY <1>2, ActInv DEF PressDelete
<1>3. CASE PressRollback
  BY <1>3, ActInv DEF PressRollback
<1>4. CASE Run
  BY <1>4, RunLoadInv, RunActionInv DEF Run
<1>5. CASE Deliver
  BY <1>5, DeliverNavInv, DeliverLoadedInv, DeliverActedInv DEF Deliver
<1>6. QED
  BY <1>1, <1>2, <1>3, <1>4, <1>5, PressBackInv, PressRefreshInv, EnterInv, CloseInv,
     LoginInv, OtherWriterInv DEF Next, Press

\* Lists and commands in flight match the view on top while no two loads of one
\* kind are for different environments, and are its own while no two overlap.
THEOREM IndInvHolds == Spec => []IndInv
<1>1. QED
  BY InitInv, NextInv, PTL DEF Spec

\* Whatever order loads end in, each list shows rows of its own environment, and
\* each deletion and rollback names a row of the environment it was chosen in,
\* unless two environments' secrets were loaded at once (view_secrets.go:62).
THEOREM ListsStayWithTheirView == Spec => []ListsBelongToTheirView
  BY IndInvHolds, PTL DEF IndInv

\* With nothing in flight, what the session replaced or deleted is not shown.
THEOREM OwnChangesShowUp == Spec => []OwnChangesAreShown
<1>1. IndInv => OwnChangesAreShown
  <2>1. SUFFICES ASSUME IndInv, Open, cmds = EmptyBag, ~overlap, ~failed, NEW n \in DOMAIN Top.rows
                 PROVE  <<Top.scope, Top.rows[n].name, Top.rows[n].version>> \notin replaced
    BY DEF OwnChangesAreShown
  <2>2. InFlight = {}
    BY <2>1, NoBag DEF InFlight
  <2>3. ~Stale(Top.rows, Top.scope)
    BY <2>1, <2>2 DEF IndInv, Fresh
  <2>4. QED
    BY <2>1, <2>3 DEF Stale
<1>2. QED
  BY <1>1, IndInvHolds, PTL

------------------------------------------------------------------------------
(* The menu is at the bottom.                                              *)

MenuFirst ==
    /\ auth \in Roles \cup {"none", "closed"}
    /\ Open => stack[1].kind = "menu"

LEMMA BottomStays ==
    ASSUME NEW base, 1 \in DOMAIN base, base[1] \in ViewTypes, base[1].kind = "menu",
           NEW rest, ShowTop(base, rest)
    PROVE  stack'[1].kind = "menu"
<1>1. stack' = [base EXCEPT ![Len(base)] = Initialised(base[Len(base)])]
  BY DEF ShowTop
<1>2. CASE Len(base) = 1
  <2>1. stack'[1] = Initialised(base[1])
    BY <1>1, <1>2
  <2>2. Initialised(base[1]).kind = base[1].kind
    BY DEF Initialised, ViewTypes
  <2>3. QED
    BY <2>1, <2>2
<1>3. CASE Len(base) # 1
  BY <1>1, <1>3
<1>4. QED
  BY <1>2, <1>3

LEMMA MenuStep ==
    ASSUME IndInv, MenuFirst, [Next]_vars
    PROVE  MenuFirst'
<1>1. stack \in Seq(ViewTypes) /\ (Open => stack # <<>>)
  BY DEF IndInv, Typed, StackOK
<1>2. Open => /\ 1 \in DOMAIN stack /\ Len(stack) \in Nat /\ Len(stack) >= 1
              /\ stack[1] \in ViewTypes /\ stack[1].kind = "menu"
  BY <1>1 DEF MenuFirst
<1>3. CASE UNCHANGED <<auth, stack>>
  BY <1>3 DEF MenuFirst, Open
<1>4. ASSUME UNCHANGED auth, Open, NEW base, NEW rest, ShowTop(base, rest),
             1 \in DOMAIN base, base[1] = stack[1]
      PROVE  MenuFirst'
  BY <1>2, <1>4, BottomStays DEF MenuFirst, Open
<1>5. CASE Press
  <2>1. CASE PressBack
    <3>1. 1 \in DOMAIN Front(stack) /\ Front(stack)[1] = stack[1]
      BY <1>1, <1>2, <2>1 DEF PressBack, Front
    <3>2. QED
      BY <1>4, <2>1, <3>1 DEF PressBack, Untouched
  <2>2. CASE PressRefresh
    BY <1>2, <1>4, <2>2 DEF PressRefresh, Untouched
  <2>3. CASE PressEnter \/ PressDelete \/ PressRollback
    BY <1>3, <2>3 DEF PressEnter, PressDelete, PressRollback, Dispatch, Untouched
  <2>4. QED
    BY <1>5, <2>1, <2>2, <2>3 DEF Press
<1>6. CASE CloseSession
  BY <1>6 DEF CloseSession, MenuFirst, Open, Roles
<1>7. CASE Run
  BY <1>3, <1>7 DEF Run, RunLoad, RunAction
<1>8. ASSUME NEW msg, DeliverNav(msg) PROVE MenuFirst'
  <2>1. PICK new : ShowTop(Append(stack, new), cmds (-) Started(msg))
    BY <1>8 DEF DeliverNav
  <2>2. 1 \in DOMAIN Append(stack, new) /\ Append(stack, new)[1] = stack[1]
    BY <1>1, <1>2, <1>8 DEF DeliverNav
  <2>3. QED
    BY <1>4, <1>8, <2>1, <2>2 DEF DeliverNav
<1>9. ASSUME NEW msg, DeliverLoaded(msg) PROVE MenuFirst'
  <2>1. CASE stack' = stack
    BY <1>3, <1>9, <2>1 DEF DeliverLoaded
  <2>2. CASE stack' # stack
    <3>1. PICK rows : stack' = [stack EXCEPT ![Len(stack)] =
                                  [Top EXCEPT !.rows = rows, !.loading = FALSE]]
      <4>1. stack' = [stack EXCEPT ![Len(stack)] =
                        [Top EXCEPT !.rows = IF msg.ok THEN msg.rows ELSE @, !.loading = FALSE]]
        BY <1>9, <2>2 DEF DeliverLoaded
      <4>2. QED
        BY <4>1
    <3>2. Top \in ViewTypes
      BY <1>1, <1>2, <1>9 DEF DeliverLoaded, Top
    <3>3. PICK new : new = [Top EXCEPT !.rows = rows, !.loading = FALSE]
      OBVIOUS
    <3>4. new.kind = Top.kind
      BY <3>2, <3>3 DEF ViewTypes
    <3>5. stack' = [stack EXCEPT ![Len(stack)] = new]
      BY <3>1, <3>3
    <3>6. stack'[1].kind = "menu"
      BY <1>1, <1>2, <1>9, <3>4, <3>5 DEF DeliverLoaded, Top
    <3>7. QED
      BY <1>9, <3>6 DEF DeliverLoaded, MenuFirst
  <2>3. QED
    BY <2>1, <2>2
<1>10. ASSUME NEW msg, DeliverActed(msg) PROVE MenuFirst'
  <2>1. CASE UNCHANGED stack
    BY <1>3, <1>10, <2>1 DEF DeliverActed
  <2>2. CASE ShowTop(stack, cmds (-) Started(msg))
    BY <1>2, <1>4, <1>10, <2>2 DEF DeliverActed
  <2>3. QED
    BY <1>10, <2>1, <2>2 DEF DeliverActed
<1>11. CASE Login
  <2>1. PICK role \in Roles : auth' = role /\ stack' = <<NewView("menu", "menu", MenuRows(role))>>
    BY <1>11 DEF Login
  <2>2. PICK new : new = NewView("menu", "menu", MenuRows(role))
    OBVIOUS
  <2>3. new.kind = "menu"
    BY <2>2 DEF NewView
  <2>4. QED
    BY <2>1, <2>2, <2>3 DEF MenuFirst
<1>12. CASE OtherWriter
  BY <1>3, <1>12 DEF OtherWriter
<1>13. CASE UNCHANGED vars
  BY <1>3, <1>13 DEF vars
<1>14. QED
  BY <1>5, <1>6, <1>7, <1>8, <1>9, <1>10, <1>11, <1>12, <1>13 DEF Next, Deliver

\* Every variable keeps its type, a live row is the newest version of its
\* history, and an open session is in the menu or came through it (app.go).
THEOREM TypeCorrect == Spec => []TypeOK
<1>1. Init => MenuFirst
  BY DEF Init, MenuFirst, Open, Roles
<1>2. IndInv /\ MenuFirst => TypeOK
  <2> SUFFICES ASSUME IndInv, MenuFirst PROVE TypeOK
    OBVIOUS
  <2>1. \A i \in DOMAIN stack : stack[i].kind \in Kinds
    <3>1. stack \in Seq(ViewTypes)
      BY DEF IndInv, Typed, StackOK
    <3>2. \A i \in DOMAIN stack : stack[i] \in ViewTypes
      BY <3>1
    <3>3. QED
      BY <3>2 DEF ViewTypes
  <2>2. \A s \in Scopes, k \in Keys : current[s][k] \in {0, newest[s][k]}
    BY DEF IndInv, Typed, Tables
  <2>3. IsABag(cmds) /\ (Open => stack # <<>>)
    BY DEF IndInv, Typed, CmdsOK
  <2>4. QED
    BY <2>1, <2>2, <2>3 DEF MenuFirst, TypeOK
<1>3. QED
  BY <1>1, <1>2, MenuStep, IndInvHolds, PTL DEF Spec

------------------------------------------------------------------------------
(* What LoadingEnds rests on: a view that says it is loading waits for a load  *)
(* that is on its way, whatever was opened, closed and loaded in between.      *)

LoadsAreUnderWay == Open /\ Top.loading => \E c \in InFlight : IsLoad(c) /\ c.kind = Top.kind

\* The views of administrators are only ever on an administrator's stack.
AdminViewsAreTheirs == Open /\ ~IsAdmin => \A i \in DOMAIN stack : stack[i].kind \notin AdminKinds

\* The menu loads nothing and leaves administrators' entries out for others.
ViewFor(role, view) ==
    /\ view.kind = "menu" =>
         ~view.loading /\ \A n \in DOMAIN view.rows : view.rows[n].name \in AdminKinds => role = "admin"
    /\ view.kind \in AdminKinds => role = "admin"

StackFor(role, s) == \A i \in 1 .. Len(s) : ViewFor(role, s[i])
NavFor(role, c) == c.op = "nav" /\ c.kind \in AdminKinds => role = "admin"

Served ==
    /\ auth = "none" => InFlight = {}
    /\ Open => StackFor(auth, stack) /\ \A c \in InFlight : NavFor(auth, c)
    /\ LoadsAreUnderWay

\* View.Init starts the load that its view waits for.
LEMMA ShowTopServed ==
    ASSUME Served, Open, NEW base, StackOK(base), base # <<>>, StackFor(auth, base),
           NEW rest, IsABag(rest), BagToSet(rest) \subseteq InFlight,
           ShowTop(base, rest), UNCHANGED auth
    PROVE  Served'
<1>1. PICK n, view, new :
        n = Len(base) /\ n \in Nat /\ view = base[n] /\ new = Initialised(view)
  BY DEF StackOK
<1>2. n \in 1 .. n /\ DOMAIN base = 1 .. n /\ base \in Seq(ViewTypes) /\ view \in ViewTypes
  BY <1>1, TopIs DEF StackOK, ViewOK
<1>3. /\ new \in ViewTypes /\ new.kind = view.kind /\ new.rows = view.rows
      /\ new.loading => Loads(view) \/ view.loading
      /\ ~Loads(view) => new.loading = view.loading
  BY <1>1, <1>2 DEF Initialised, ViewTypes
<1>4. stack' = [base EXCEPT ![n] = new]
  BY <1>1 DEF ShowTop
<1>5. /\ Len(stack') = n /\ stack'[n] = new
      /\ \A i \in 1 .. n : i # n => stack'[i] = base[i]
  BY <1>2, <1>3, <1>4
<1>6. ViewFor(auth, view)
  BY <1>1, <1>2 DEF StackFor
<1>7. ViewFor(auth, new)
  BY <1>3, <1>6 DEF ViewFor, Loads
<1>8. StackFor(auth, stack')
  BY <1>1, <1>5, <1>7 DEF StackFor
<1>9. InFlight' = BagToSet(rest) \cup (IF Loads(view) THEN {LoadCmd(view)} ELSE {})
  BY <1>1, AddToBag DEF ShowTop, InitCmds, InFlight
<1>10. \A c \in InFlight' : NavFor(auth, c)
  BY <1>9 DEF Served, NavFor, LoadCmd
<1>11. ~Loads(view) => ~new.loading \/ view.kind \notin Listed
  <2>1. ASSUME ~Loads(view) PROVE view.kind = "menu" \/ (view.kind \in AdminKinds /\ ~IsAdmin)
    BY <2>1 DEF Loads
  <2>2. view.kind \in AdminKinds => IsAdmin
    BY <1>6 DEF ViewFor, IsAdmin
  <2>3. QED
    BY <2>1, <2>2 DEF Listed
<1>12. LoadsAreUnderWay'
  <2>1. SUFFICES ASSUME new.loading PROVE \E c \in InFlight' : IsLoad(c) /\ c.kind = new.kind
    BY <1>5 DEF LoadsAreUnderWay, Top
  <2>2. Loads(view)
    BY <1>3, <1>6, <1>7, <1>11, <2>1 DEF ViewFor, Loads, IsAdmin
  <2>3. LoadCmd(view) \in InFlight' /\ IsLoad(LoadCmd(view)) /\ LoadCmd(view).kind = new.kind
    BY <1>3, <1>9, <2>2 DEF LoadCmd, IsLoad
  <2>4. QED
    BY <2>3
<1>13. QED
  BY <1>8, <1>10, <1>12 DEF Served, Open, Roles

\* The views stay, and the loads of the one on top.
LEMMA StaysServed ==
    ASSUME Served, UNCHANGED <<auth, stack>>,
           Open => /\ \A c \in InFlight' \ InFlight : NavFor(auth, c)
                   /\ \A c \in InFlight : IsLoad(c) /\ c.kind = Top.kind =>
                         \E d \in InFlight' : IsLoad(d) /\ d.kind = Top.kind,
           auth = "none" => InFlight' = {}
    PROVE  Served'
<1>1. LoadsAreUnderWay'
  BY DEF Served, LoadsAreUnderWay, Open, Top
<1>2. QED
  BY <1>1 DEF Served, Open

LEMMA PressServed == ASSUME IndInv, Served, Press PROVE Served'
<1>1. /\ Open /\ StackOK(stack) /\ stack # <<>> /\ StackFor(auth, stack)
      /\ IsABag(cmds) /\ BagToSet(cmds) = InFlight /\ CmdsOK(cmds)
  BY DEF Press, PressBack, PressRefresh, PressEnter, PressDelete, PressRollback, IndInv, Typed,
         CmdsOK, Served, InFlight
<1>2. UNCHANGED auth
  BY DEF Press, PressBack, PressRefresh, PressEnter, PressDelete, PressRollback, Untouched
<1>3. CASE PressBack
  <2>1. PICK base : base = Front(stack)
    OBVIOUS
  <2>2. /\ stack \in Seq(ViewTypes) /\ Len(stack) \in Nat /\ Len(stack) > 1
        /\ \A i \in 1 .. Len(stack) : ViewOK(stack[i]) /\ ViewFor(auth, stack[i])
    BY <1>1, <1>3 DEF PressBack, StackOK, StackFor
  <2>3. /\ base \in Seq(ViewTypes) /\ Len(base) = Len(stack) - 1 /\ base # <<>>
        /\ \A i \in 1 .. Len(base) : base[i] = stack[i]
    BY <2>2, <2>1, FrontIs
  <2>4. StackOK(base) /\ StackFor(auth, base)
    BY <2>2, <2>3 DEF StackOK, StackFor
  <2>5. ShowTop(base, cmds)
    BY <1>3, <2>1 DEF PressBack
  <2>6. QED
    BY <1>1, <1>2, <2>3, <2>4, <2>5, ShowTopServed
<1>4. CASE PressRefresh
  BY <1>1, <1>2, <1>4, ShowTopServed DEF PressRefresh
<1>5. ASSUME NEW c, Dispatch(c), NavFor(auth, c) PROVE Served'
  <2>1. InFlight' = InFlight \cup {c} /\ UNCHANGED stack
    BY <1>1, <1>5, AddToBag DEF Dispatch, InFlight
  <2>2. auth # "none"
    BY <1>1 DEF Open, Roles
  <2>3. QED
    BY <1>2, <1>5, <2>1, <2>2, StaysServed
<1>6. CASE PressEnter
  <2>1. PICK row \in Selectable :
          \/ Top.kind = "menu" /\ Dispatch(NavCmd(row.name, row.name))
          \/ Top.kind = "projects" /\ Dispatch(NavCmd("envs", "envs"))
          \/ Top.kind = "envs" /\ Dispatch(NavCmd("secrets", row.name))
    BY <1>6 DEF PressEnter
  <2>2. ViewFor(auth, Top)
    BY <1>1, TopIs DEF StackFor, Top
  <2>3. Top.kind = "menu" => NavFor(auth, NavCmd(row.name, row.name))
    BY <2>1, <2>2 DEF ViewFor, NavFor, NavCmd, Selectable, Range
  <2>4. /\ NavFor(auth, NavCmd("envs", "envs"))
        /\ NavFor(auth, NavCmd("secrets", row.name))
    BY DEF NavFor, NavCmd, AdminKinds
  <2>5. QED
    BY <1>5, <2>1, <2>3, <2>4
<1>7. CASE PressDelete \/ PressRollback
  <2>1. PICK row, target, what : Dispatch(ActCmd(what, row, target)) /\ what # "nav"
    BY <1>7 DEF PressDelete, PressRollback
  <2>2. NavFor(auth, ActCmd(what, row, target))
    BY <2>1 DEF NavFor, ActCmd
  <2>3. QED
    BY <1>5, <2>1, <2>2
<1>8. QED
  BY <1>3, <1>4, <1>6, <1>7 DEF Press

\* A load that runs becomes the list that its view waits for.
LEMMA RunServed ==
    ASSUME IndInv, Served, NEW cmd \in InFlight, RunLoad(cmd) \/ RunAction(cmd)
    PROVE  Served'
<1>1. PICK m : /\ Replace(cmd, Started(m)) /\ m.op \in {"loaded", "acted"} /\ m.kind = cmd.kind
               /\ cmd.op = "load" => m.op = "loaded"
  <2>1. CASE RunLoad(cmd)
    <3>1. PICK ok \in BOOLEAN :
            Replace(cmd, Started([op |-> "loaded", kind |-> cmd.kind, ok |-> ok,
                                  rows |-> IF ok THEN Listing(cmd.kind, cmd.scope) ELSE <<>>]))
      BY <2>1 DEF RunLoad
    <3>2. QED
      BY <3>1
  <2>2. CASE RunAction(cmd)
    BY <2>2 DEF RunAction
  <2>3. QED
    BY <2>1, <2>2
<1>2. PICK rest : rest = cmds (-) Started(cmd)
  OBVIOUS
<1>3. /\ IsABag(rest) /\ BagToSet(rest) \subseteq InFlight
      /\ InFlight \ {cmd} \subseteq BagToSet(rest)
  BY <1>2, TakeFromBag DEF IndInv, Typed, CmdsOK, InFlight
<1>4. cmds' = rest (+) (IF Open THEN Started(m) ELSE EmptyBag)
  BY <1>1, <1>2 DEF Replace
<1>5. InFlight' = BagToSet(rest) \cup (IF Open THEN {m} ELSE {})
  BY <1>3, <1>4, AddToBag DEF InFlight
<1>6. UNCHANGED <<auth, stack>> /\ auth # "none"
  BY DEF RunLoad, RunAction, Served
<1>7. \A c \in InFlight' \ InFlight : NavFor(auth, c)
  BY <1>1, <1>3, <1>5 DEF NavFor
<1>8. IsLoad(cmd) => cmd.op = "load" /\ IsLoad(m)
  BY <1>1 DEF IsLoad, RunLoad, RunAction
<1>9. Open => \A c \in InFlight : IsLoad(c) /\ c.kind = Top.kind =>
                \E d \in InFlight' : IsLoad(d) /\ d.kind = Top.kind
  BY <1>1, <1>3, <1>5, <1>8
<1>10. QED
  BY <1>6, <1>7, <1>9, StaysServed

LEMMA DeliverServed ==
    ASSUME IndInv, Served, NEW msg \in InFlight,
           DeliverNav(msg) \/ DeliverLoaded(msg) \/ DeliverActed(msg)
    PROVE  Served'
<1>0. PICK rest : rest = cmds (-) Started(msg)
  OBVIOUS
<1>1. /\ Open /\ UNCHANGED auth /\ auth # "none" /\ CmdOK(msg)
      /\ stack \in Seq(ViewTypes) /\ stack # <<>> /\ StackOK(stack) /\ StackFor(auth, stack)
      /\ IsABag(rest) /\ BagToSet(rest) \subseteq InFlight
      /\ InFlight \ {msg} \subseteq BagToSet(rest)
  BY <1>0, TakenFacts DEF DeliverNav, DeliverLoaded, DeliverActed, IndInv, Typed, CmdsOK, Served,
     InFlight, Open, Roles, StackOK
<1>2. Len(stack) \in 1 .. Len(stack) /\ DOMAIN stack = 1 .. Len(stack) /\ Top = stack[Len(stack)]
      /\ Top \in ViewTypes
  BY <1>1, TopIs DEF Top, ViewOK
<1>3. ASSUME cmds' = rest, UNCHANGED stack, ~(IsLoad(msg) /\ msg.kind = Top.kind)
      PROVE  Served'
  <2>1. BagToSet(rest) = InFlight'
    BY <1>3 DEF InFlight
  <2>2. QED
    BY <1>1, <1>3, <2>1, StaysServed
<1>4. CASE DeliverNav(msg)
  <2>1. PICK view : view = NewView(msg.kind, msg.scope, <<>>)
    OBVIOUS
  <2>2. /\ view.kind = msg.kind /\ view.kind \in Listed /\ view.rows = <<>> /\ NavFor(auth, msg)
        /\ msg.op = "nav" /\ PlaceOK(msg.kind, msg.scope)
    BY <1>1, <1>4, <2>1 DEF DeliverNav, NewView, CmdOK, Served
  <2>3. ViewFor(auth, view)
    BY <2>2 DEF ViewFor, NavFor, Listed
  <2>4. ViewOK(view) /\ view \in ViewTypes
    <3>1. msg.scope \in Places /\ msg.kind \in Kinds
      BY <2>2 DEF PlaceOK, Places, Listed
    <3>2. <<>> \in Seq(Rows) /\ RowsOK(msg.kind, <<>>)
      BY DEF RowsOK
    <3>3. QED
      BY <2>1, <2>2, <3>1, <3>2 DEF NewView, ViewOK, ViewTypes
  <2>5. PICK base : base = Append(stack, view)
    OBVIOUS
  <2>6. /\ base \in Seq(ViewTypes) /\ Len(base) = Len(stack) + 1 /\ base # <<>>
        /\ \A i \in 1 .. Len(base) : base[i] = IF i = Len(base) THEN view ELSE stack[i]
        /\ \A i \in 1 .. Len(base) : i # Len(base) => i \in 1 .. Len(stack)
    BY <1>1, <2>4, <2>5
  <2>7. StackOK(base) /\ StackFor(auth, base)
    BY <1>1, <2>3, <2>4, <2>6 DEF StackOK, StackFor
  <2>8. ShowTop(base, rest)
    BY <1>0, <1>4, <2>1, <2>5 DEF DeliverNav
  <2>9. QED
    BY <1>1, <2>6, <2>7, <2>8, ShowTopServed
<1>5. CASE DeliverLoaded(msg)
  <2>1. CASE Top.kind # msg.kind
    BY <1>0, <1>3, <1>5, <2>1 DEF DeliverLoaded
  <2>2. CASE Top.kind = msg.kind
    <3>1. PICK rows : stack' = [stack EXCEPT ![Len(stack)] = [Top EXCEPT !.rows = rows, !.loading = FALSE]]
      <4>1. PICK rows : rows = IF msg.ok THEN msg.rows ELSE Top.rows
        OBVIOUS
      <4>2. [Top EXCEPT !.rows = IF msg.ok THEN msg.rows ELSE @, !.loading = FALSE]
              = [Top EXCEPT !.rows = rows, !.loading = FALSE]
        BY <1>2, <4>1 DEF ViewTypes
      <4>3. QED
        BY <1>5, <2>2, <4>2 DEF DeliverLoaded
    <3>2. PICK new : new = [Top EXCEPT !.rows = rows, !.loading = FALSE]
      OBVIOUS
    <3>3. new.kind = Top.kind /\ new.loading = FALSE
      BY <1>2, <3>2 DEF ViewTypes
    <3>4. msg.kind \in Listed
      BY <1>1, <1>5 DEF DeliverLoaded, CmdOK
    <3>5. ViewFor(auth, new)
      BY <1>1, <1>2, <2>2, <3>3, <3>4 DEF ViewFor, StackFor, Listed
    <3>6. /\ Len(stack') = Len(stack) /\ stack'[Len(stack)] = new
          /\ \A i \in 1 .. Len(stack) : i # Len(stack) => stack'[i] = stack[i]
      BY <1>1, <1>2, <3>1, <3>2
    <3>7. StackFor(auth, stack')
      BY <1>1, <3>5, <3>6 DEF StackFor
    <3>8. InFlight' \subseteq InFlight
      BY <1>0, <1>1, <1>5 DEF DeliverLoaded, InFlight
    <3>9. ~Top'.loading
      BY <3>3, <3>6 DEF Top
    <3>10. QED
      BY <1>1, <3>7, <3>8, <3>9 DEF Served, LoadsAreUnderWay
  <2>3. QED
    BY <2>1, <2>2
<1>6. CASE DeliverActed(msg)
  <2>1. CASE Top.kind = msg.kind
    BY <1>0, <1>1, <1>6, <2>1, ShowTopServed DEF DeliverActed
  <2>2. CASE Top.kind # msg.kind
    BY <1>0, <1>3, <1>6, <2>2 DEF DeliverActed
  <2>3. QED
    BY <2>1, <2>2
<1>7. QED
  BY <1>4, <1>5, <1>6

LEMMA LoginServed == ASSUME Served, Login PROVE Served'
<1>1. PICK role \in Roles : auth' = role /\ stack' = <<NewView("menu", "menu", MenuRows(role))>>
  BY DEF Login
<1>2. InFlight' = {}
  BY DEF Login, Served, InFlight
<1>3. PICK rows : rows = MenuRows(role)
  OBVIOUS
<1>4. PICK view : view = NewView("menu", "menu", rows)
  OBVIOUS
<1>5. view.kind = "menu" /\ view.rows = rows /\ ~view.loading
  BY <1>4 DEF NewView
<1>6. role # "admin" => \A n \in DOMAIN rows : rows[n].name \notin AdminKinds
  <2>1. SUFFICES ASSUME role # "admin", NEW n \in DOMAIN rows PROVE rows[n].name \notin AdminKinds
    OBVIOUS
  <2>2. PICK names : names = <<"projects", "vault">> \o <<>>
    OBVIOUS
  <2>3. names = <<"projects", "vault">>
    BY <2>2
  <2>4. rows = [i \in DOMAIN names |-> Row(names[i], 0, "menu")]
    BY <1>3, <2>1, <2>2 DEF MenuRows
  <2>5. n \in {1, 2} /\ rows[n].name = names[n]
    BY <2>1, <2>3, <2>4 DEF Row
  <2>6. QED
    BY <2>3, <2>5 DEF AdminKinds
<1>7. stack' = <<view>>
  BY <1>1, <1>3, <1>4
<1>8. Len(stack') = 1 /\ stack'[1] = view /\ Top' = view
  BY <1>7 DEF Top
<1>9. ViewFor(role, view)
  BY <1>5, <1>6 DEF ViewFor, AdminKinds
<1>10. QED
  BY <1>1, <1>2, <1>5, <1>8, <1>9 DEF Served, StackFor, LoadsAreUnderWay, Roles, Open

LEMMA ServedNext == IndInv /\ Served /\ [Next]_vars => Served'
<1> SUFFICES ASSUME IndInv, Served, [Next]_vars PROVE Served'
  OBVIOUS
<1>1. CASE CloseSession
  <2>1. auth' = "closed"
    BY <1>1 DEF CloseSession
  <2>2. QED
    BY <2>1 DEF Served, LoadsAreUnderWay, Open, Roles
<1>2. CASE OtherWriter \/ UNCHANGED vars
  <2>1. UNCHANGED <<auth, stack, cmds>>
    BY <1>2 DEF OtherWriter, vars
  <2>2. QED
    BY <2>1 DEF Served, LoadsAreUnderWay, Open, InFlight, Top
<1>3. QED
  BY <1>1, <1>2, PressServed, RunServed, DeliverServed, LoginServed DEF Next, Run, Deliver

\* A view on top that says it is loading has a load of its kind in flight, and
\* an administrators' view is on no other user's stack: there it would wait for
\* ever, as its Init loads nothing (app.go:93-98, view_users.go, view_audit.go).
THEOREM ViewsAreServed == Spec => [](LoadsAreUnderWay /\ AdminViewsAreTheirs)
<1>1. Init => Served
  BY NoBag DEF Init, Served, LoadsAreUnderWay, Open, Roles, InFlight
<1>2. IndInv /\ Served => LoadsAreUnderWay /\ AdminViewsAreTheirs
  <2>1. SUFFICES ASSUME IndInv, Served, Open, ~IsAdmin, NEW i \in DOMAIN stack
                 PROVE  stack[i].kind \notin AdminKinds
    BY DEF Served, AdminViewsAreTheirs
  <2>2. i \in 1 .. Len(stack)
    BY <2>1 DEF IndInv, Typed, StackOK
  <2>3. QED
    BY <2>1, <2>2 DEF Served, StackFor, ViewFor, IsAdmin
<1>3. QED
  BY <1>1, <1>2, ServedNext, IndInvHolds, PTL DEF Spec
=============================================================================
