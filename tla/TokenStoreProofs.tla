-------------------------- MODULE TokenStoreProofs --------------------------
(***************************************************************************)
(* What the CLI's token state guarantees for any number of commands,       *)
(* logins and grants, with either backend, as long as no two commands      *)
(* overlap.                                                                *)
(***************************************************************************)
EXTENDS TokenStore, TLAPS

\* How long a solver may take on one step.
USE SMTT(60)

(* What is left of the orders, and the entries left to touch.              *)
LoadTodos == {LoadOrder} \cup
  IF Keychain THEN {<<{"refresh"}, {"access"}>>, <<{"access"}>>} ELSE {}

SaveTodos == {SaveOrder} \cup
  IF Keychain THEN {<<{"access"}, {"meta"}>>, <<{"meta"}>>} ELSE {}

DeleteTodos == {DeleteOrder} \cup
  IF Keychain THEN {<<{"refresh"}, {"meta"}>>, <<{"meta"}>>} ELSE {}

Left(todo) == UNION {todo[i] : i \in DOMAIN todo}

(* All entries that are there stem from one login.                         *)
SameLogin(state) ==
  \A e, f \in Entries : state[e] # None /\ state[f] # None => state[e][1] = state[f][1]

(* All entries stem from a login made so far.                              *)
MadeBy(state, n) == \A e \in Entries : state[e] # None => state[e][1] \in 1..n

(* Where a command is: past its first read, with tokens just refreshed or  *)
(* just issued to a login in its hands and nothing written, between two    *)
(* writes, or between two accesses of any kind.                            *)
Using(c) ==
  \/ cmd[c].pc = "load" /\ cmd[c].todo # LoadOrder
  \/ cmd[c].pc \in {"decide", "grant"}
  \/ cmd[c].pc = "save" /\ cmd[c].role = "use"

Refreshed(c) == cmd[c].pc = "save" /\ cmd[c].role = "use" /\ cmd[c].todo = SaveOrder

NewLogin(c) == cmd[c].pc = "save" /\ cmd[c].role = "login" /\ cmd[c].todo = SaveOrder

Writing(c) == cmd[c].pc = "save" /\ cmd[c].todo # SaveOrder

Touching(c) ==
  Using(c) \/ Writing(c) \/ (cmd[c].pc = "delete" /\ cmd[c].todo # DeleteOrder)

(* A command's shape at each program point.                                *)
ShapeInv(c) ==
  /\ cmd[c].pc \in {"load", "decide", "grant"} => cmd[c].role = "use"
  /\ cmd[c].pc = "exchange" => cmd[c].role = "login"
  /\ cmd[c].pc = "save" => cmd[c].role \in {"use", "login"}
  /\ cmd[c].pc = "load" => cmd[c].todo \in LoadTodos
  /\ cmd[c].pc = "save" => cmd[c].todo \in SaveTodos
  /\ cmd[c].pc = "delete" => cmd[c].todo \in DeleteTodos
  /\ Touching(c) => c \in busy

(* What a command holds was found in the store, or issued by the IdP.      *)
HeldInv(c) ==
  /\ MadeBy(cmd[c].state, Len(idpOf))
  /\ cmd[c].pc = "load" => \A e \in Entries \ (Left(cmd[c].todo) \cup {"access"}) : cmd[c].state[e] # None
  /\ cmd[c].pc \in {"decide", "grant"} => \A e \in Entries \ {"access"} : cmd[c].state[e] # None
  /\ cmd[c].pc = "save" => \A e \in Entries : cmd[c].state[e] # None
  /\ cmd[c].pc = "save" /\ cmd[c].role = "login" => SameLogin(cmd[c].state)

(* The tokens of a login that has written nothing are nobody else's.       *)
NewInv(c) ==
  NewLogin(c) =>
    LET t == cmd[c].state["refresh"]
    IN /\ live[t[1]] = t[2]
       /\ \A e \in Entries : store[e][1] # t[1]
       /\ \A d \in Cmds \ {c}, e \in Entries : cmd[d].state[e][1] # t[1]

(* While no commands overlap, a command's view of the store is true.       *)
ViewInv(c) ==
  /\ cmd[c].pc = "load" => \A e \in Entries \ Left(cmd[c].todo) : store[e] = cmd[c].state[e]
  /\ cmd[c].pc \in {"decide", "grant"} => \A e \in Entries : store[e] = cmd[c].state[e]
  /\ cmd[c].pc = "save" /\ cmd[c].role = "use" => store["meta"] # None /\ store["refresh"] # None
  /\ cmd[c].pc = "save" => \A e \in Entries \ Left(cmd[c].todo) : store[e] = cmd[c].state[e]
  /\ cmd[c].pc = "delete" =>
       \A e \in Entries \ (Left(cmd[c].todo) \cup cmd[c].deleteErrors) : store[e] = None
  /\ Refreshed(c) => live[cmd[c].state["refresh"][1]] = cmd[c].state["refresh"][2]

(* And, while no save was cut short, what it will save or present is of    *)
(* one login.                                                              *)
WholeInv(c) ==
  /\ cmd[c].pc = "save" => SameLogin(cmd[c].state)
  /\ cmd[c].pc = "grant" => idpOf[cmd[c].state["refresh"][1]] = cmd[c].idp

(* The store is of one login except between two writes, and its refresh    *)
(* token is the live one except between a refresh and the first write.     *)
StoreInv ==
  /\ MadeBy(store, Len(idpOf))
  /\ ~raced => \A c, d \in busy : c = d
  /\ ~raced /\ ~torn => SameLogin(store) \/ \E c \in busy : Writing(c)
  /\ ~raced /\ ~lost =>
       \/ store["refresh"] = None
       \/ live[store["refresh"][1]] = store["refresh"][2]
       \/ \E c \in busy : Refreshed(c)
  /\ LogoutClears

CmdInv(c) ==
  /\ ShapeInv(c) /\ HeldInv(c) /\ NewInv(c)
  /\ ~raced => ViewInv(c)
  /\ ~raced /\ ~torn => WholeInv(c)

Records ==
  [pc : Labels, role : Roles, idp : IdPs, state : [Entries -> Tokens \cup {None}],
   todo : Seq(SUBSET Entries), deleteErrors : SUBSET Entries]

TokenInv ==
  TypeOK /\ cmd \in [Cmds -> Records] /\ StoreInv /\ \A c \in Cmds : CmdInv(c)
-----------------------------------------------------------------------------
(* The orders.                                                             *)

(* The entries left in a sequence of at most three.                        *)
LEMMA LeftOf1 ==
    ASSUME NEW a \in SUBSET Entries
    PROVE  /\ Left(<<a>>) = a /\ <<a>> \in Seq(SUBSET Entries)
           /\ Head(<<a>>) = a /\ Tail(<<a>>) = <<>> /\ Len(<<a>>) = 1
<1>1. DOMAIN <<a>> = 1..1
  OBVIOUS
<1>2. Left(<<a>>) = a
  BY <1>1 DEF Left
<1> QED
  BY <1>2

(* The same of two steps.                                                  *)
LEMMA LeftOf2 ==
    ASSUME NEW a \in SUBSET Entries, NEW b \in SUBSET Entries
    PROVE  /\ Left(<<a, b>>) = a \cup b /\ <<a, b>> \in Seq(SUBSET Entries)
           /\ Head(<<a, b>>) = a /\ Tail(<<a, b>>) = <<b>> /\ Len(<<a, b>>) = 2
<1>1. DOMAIN <<a, b>> = 1..2
  OBVIOUS
<1>2. Left(<<a, b>>) = a \cup b
  BY <1>1 DEF Left
<1> QED
  BY <1>2

(* The same of three.                                                      *)
LEMMA LeftOf3 ==
    ASSUME NEW a \in SUBSET Entries, NEW b \in SUBSET Entries, NEW d \in SUBSET Entries
    PROVE  /\ Left(<<a, b, d>>) = a \cup b \cup d /\ <<a, b, d>> \in Seq(SUBSET Entries)
           /\ Head(<<a, b, d>>) = a /\ Tail(<<a, b, d>>) = <<b, d>> /\ Len(<<a, b, d>>) = 3
<1>1. DOMAIN <<a, b, d>> = 1..3
  OBVIOUS
<1>2. Left(<<a, b, d>>) = a \cup b \cup d
  BY <1>1 DEF Left
<1> QED
  BY <1>2

(* What is left of an order after any of its steps: the next entries are   *)
(* among those left, only the whole order still has the first one to       *)
(* touch, and the last step leaves none.                                   *)
Walk(todos, order, first) ==
  \A t \in todos :
    /\ t \in Seq(SUBSET Entries) /\ Tail(t) \in Seq(SUBSET Entries) /\ Len(t) \in {1, 2, 3}
    /\ Head(t) \subseteq Left(t) /\ Left(t) \subseteq Entries
    /\ Len(t) = 1 => Left(t) = Head(t)
    /\ Len(t) # 1 => Tail(t) \in todos \ {order} /\ Left(Tail(t)) = Left(t) \ Head(t)
    /\ t = order => Left(t) = Entries /\ first \in Head(t)
    /\ t # order => first \notin Left(t)

(* The keychain's orders each touch the three entries one by one.          *)
LEMMA ThreeSteps ==
    ASSUME NEW A \in SUBSET Entries, NEW B \in SUBSET Entries, NEW D \in SUBSET Entries,
           A \cup B \cup D = Entries, A \cap (B \cup D) = {}, B \cap D = {}, NEW a \in A
    PROVE  Walk({<<A, B, D>>, <<B, D>>, <<D>>}, <<A, B, D>>, a)
<1> HIDE DEF Entries
<1>1. /\ Left(<<A, B, D>>) = A \cup B \cup D /\ Head(<<A, B, D>>) = A
      /\ Tail(<<A, B, D>>) = <<B, D>> /\ Len(<<A, B, D>>) = 3 /\ <<A, B, D>> \in Seq(SUBSET Entries)
  BY LeftOf3
<1>2. /\ Left(<<B, D>>) = B \cup D /\ Head(<<B, D>>) = B /\ Tail(<<B, D>>) = <<D>>
      /\ Len(<<B, D>>) = 2 /\ <<B, D>> \in Seq(SUBSET Entries)
  BY LeftOf2, Zenon
<1>3. /\ Left(<<D>>) = D /\ Head(<<D>>) = D /\ Tail(<<D>>) = <<>>
      /\ Len(<<D>>) = 1 /\ <<D>> \in Seq(SUBSET Entries)
  BY LeftOf1, Zenon
<1>4. /\ Left(<<A, B, D>>) = Entries /\ Left(<<B, D>>) = B \cup D /\ Left(<<D>>) = D
      /\ Head(<<A, B, D>>) = A /\ Head(<<B, D>>) = B /\ Head(<<D>>) = D
      /\ Tail(<<A, B, D>>) = <<B, D>> /\ Tail(<<B, D>>) = <<D>> /\ Tail(<<D>>) = <<>>
      /\ Len(<<A, B, D>>) = 3 /\ Len(<<B, D>>) = 2 /\ Len(<<D>>) = 1
      /\ <<A, B, D>> \in Seq(SUBSET Entries) /\ <<B, D>> \in Seq(SUBSET Entries)
      /\ <<D>> \in Seq(SUBSET Entries)
  BY <1>1, <1>2, <1>3, Zenon
<1>5. <<>> \in Seq(SUBSET Entries)
  OBVIOUS
<1>6. <<B, D>> # <<A, B, D>> /\ <<D>> # <<A, B, D>>
  BY <1>4
<1>7. a \notin B \cup D /\ a \notin D /\ B \cup D = Entries \ A /\ D = (B \cup D) \ B
  OBVIOUS
<1>8. ASSUME NEW t \in {<<A, B, D>>, <<B, D>>, <<D>>}
      PROVE  /\ t \in Seq(SUBSET Entries) /\ Tail(t) \in Seq(SUBSET Entries) /\ Len(t) \in {1, 2, 3}
             /\ Head(t) \subseteq Left(t) /\ Left(t) \subseteq Entries
             /\ Len(t) = 1 => Left(t) = Head(t)
             /\ Len(t) # 1 => /\ Tail(t) \in {<<A, B, D>>, <<B, D>>, <<D>>} \ {<<A, B, D>>}
                              /\ Left(Tail(t)) = Left(t) \ Head(t)
             /\ t = <<A, B, D>> => Left(t) = Entries /\ a \in Head(t)
             /\ t # <<A, B, D>> => a \notin Left(t)
  <2>1. CASE t = <<A, B, D>>
    BY <1>4, <1>5, <1>6, <1>7, <2>1
  <2>2. CASE t = <<B, D>>
    BY <1>4, <1>5, <1>6, <1>7, <2>2
  <2>3. CASE t = <<D>>
    BY <1>4, <1>5, <1>6, <1>7, <2>3
  <2> QED
    BY <2>1, <2>2, <2>3, Zenon
<1> QED
  BY <1>8, Zenon DEF Walk

(* The file backend touches them all at once.                              *)
LEMMA OneStep ==
    ASSUME NEW a \in Entries
    PROVE  Walk({<<Entries>>}, <<Entries>>, a)
<1>1. <<>> \in Seq(SUBSET Entries) /\ Entries \in SUBSET Entries
  OBVIOUS
<1> HIDE DEF Entries
<1>2. /\ Left(<<Entries>>) = Entries /\ <<Entries>> \in Seq(SUBSET Entries)
      /\ Head(<<Entries>>) = Entries /\ Tail(<<Entries>>) = <<>> /\ Len(<<Entries>>) = 1
  BY <1>1, LeftOf1
<1>3. <<>> \in Seq(SUBSET Entries) /\ Entries \subseteq Entries
  OBVIOUS
<1> QED
  BY <1>2, <1>3, Zenon DEF Walk

(* Load reads the metadata first.                                          *)
LEMMA LoadWalk == Walk(LoadTodos, LoadOrder, "meta")
<1>1. CASE Keychain
  <2> DEFINE A == {"meta"} B == {"refresh"} D == {"access"}
  <2>1. /\ A \in SUBSET Entries /\ B \in SUBSET Entries /\ D \in SUBSET Entries
        /\ A \cup B \cup D = Entries /\ A \cap (B \cup D) = {} /\ B \cap D = {} /\ "meta" \in A
    BY DEF Entries
  <2>2. LoadTodos = {<<A, B, D>>, <<B, D>>, <<D>>} /\ LoadOrder = <<A, B, D>>
    BY <1>1, Zenon DEF LoadTodos, LoadOrder
  <2> HIDE DEF A, B, D, Entries
  <2> QED
    BY <2>1, <2>2, ThreeSteps
<1>2. CASE ~Keychain
  <2>1. LoadTodos = {<<Entries>>} /\ LoadOrder = <<Entries>>
    BY <1>2, Zenon DEF LoadTodos, LoadOrder
  <2>2. "meta" \in Entries
    BY DEF Entries
  <2> HIDE DEF Entries
  <2> QED
    BY <2>1, <2>2, OneStep
<1> QED
  BY <1>1, <1>2

(* Save writes the refresh token first.                                    *)
LEMMA SaveWalk == Walk(SaveTodos, SaveOrder, "refresh")
<1>1. CASE Keychain
  <2> DEFINE A == {"refresh"} B == {"access"} D == {"meta"}
  <2>1. /\ A \in SUBSET Entries /\ B \in SUBSET Entries /\ D \in SUBSET Entries
        /\ A \cup B \cup D = Entries /\ A \cap (B \cup D) = {} /\ B \cap D = {} /\ "refresh" \in A
    BY DEF Entries
  <2>2. SaveTodos = {<<A, B, D>>, <<B, D>>, <<D>>} /\ SaveOrder = <<A, B, D>>
    BY <1>1, Zenon DEF SaveTodos, SaveOrder
  <2> HIDE DEF A, B, D, Entries
  <2> QED
    BY <2>1, <2>2, ThreeSteps
<1>2. CASE ~Keychain
  <2>1. SaveTodos = {<<Entries>>} /\ SaveOrder = <<Entries>>
    BY <1>2, Zenon DEF SaveTodos, SaveOrder
  <2>2. "refresh" \in Entries
    BY DEF Entries
  <2> HIDE DEF Entries
  <2> QED
    BY <2>1, <2>2, OneStep
<1> QED
  BY <1>1, <1>2

(* Delete removes the access token first.                                  *)
LEMMA DeleteWalk == Walk(DeleteTodos, DeleteOrder, "access")
<1>1. CASE Keychain
  <2> DEFINE A == {"access"} B == {"refresh"} D == {"meta"}
  <2>1. /\ A \in SUBSET Entries /\ B \in SUBSET Entries /\ D \in SUBSET Entries
        /\ A \cup B \cup D = Entries /\ A \cap (B \cup D) = {} /\ B \cap D = {} /\ "access" \in A
    BY DEF Entries
  <2>2. DeleteTodos = {<<A, B, D>>, <<B, D>>, <<D>>} /\ DeleteOrder = <<A, B, D>>
    BY <1>1, Zenon DEF DeleteTodos, DeleteOrder
  <2> HIDE DEF A, B, D, Entries
  <2> QED
    BY <2>1, <2>2, ThreeSteps
<1>2. CASE ~Keychain
  <2>1. DeleteTodos = {<<Entries>>} /\ DeleteOrder = <<Entries>>
    BY <1>2, Zenon DEF DeleteTodos, DeleteOrder
  <2>2. "access" \in Entries
    BY DEF Entries
  <2> HIDE DEF Entries
  <2> QED
    BY <2>1, <2>2, OneStep
<1> QED
  BY <1>1, <1>2
-----------------------------------------------------------------------------
(* Tokens, and what the operators that assign do.                          *)

(* A token names the login and the grant it is of, and None names neither. *)
LEMMA TokensAre ==
    /\ None[1] = 0
    /\ \A t \in Tokens : t # None /\ t[1] \in 1..MaxLogins /\ t[2] \in 0..MaxGrants /\ t[1] \in Nat
    /\ \A l \in 1..MaxLogins, n \in 0..MaxGrants :
         <<l, n>> \in Tokens /\ <<l, n>>[1] = l /\ <<l, n>>[2] = n
BY TokenStoreAssumption DEF Tokens, None

States == [Entries -> Tokens \cup {None}]

(* The empty state has no entry.                                           *)
LEMMA NoStateIs == NoState \in States /\ \A e \in Entries : NoState[e] = None
BY DEF NoState, States

(* The entries of both backends.                                           *)
LEMMA EntriesAre == Entries = {"refresh", "access", "meta"}
BY DEF Entries

(* A command that goes on keeps its role and its IdP.                      *)
WentOn(c, label, state, todo, errors) ==
  /\ cmd' \in [Cmds -> Records]
  /\ cmd'[c].pc = label /\ cmd'[c].role = cmd[c].role /\ cmd'[c].idp = cmd[c].idp
  /\ cmd'[c].state = state /\ cmd'[c].todo = todo /\ cmd'[c].deleteErrors = errors
  /\ \A d \in Cmds \ {c} : cmd'[d] = cmd[d]

GoesOn(c, label, state, todo, errors) ==
  /\ cmd \in [Cmds -> Records] /\ c \in Cmds /\ label \in Labels /\ state \in States
  /\ todo \in Seq(SUBSET Entries) /\ errors \subseteq Entries
  /\ GoOn(c, label, state, todo, errors)

(* A command that goes on keeps its role and its IdP, and the others stay  *)
(* where they are.                                                         *)
LEMMA GoOnIs ==
    ASSUME NEW c, NEW label, NEW state, NEW todo, NEW errors, GoesOn(c, label, state, todo, errors)
    PROVE  WentOn(c, label, state, todo, errors)
<1> HIDE DEF Labels, Entries, Tokens, None, Roles, IdPs, States
<1> DEFINE T == Seq(SUBSET Entries)
<1>1. Records = [pc : Labels, role : Roles, idp : IdPs, state : States, todo : T, deleteErrors : SUBSET Entries]
  BY Zenon DEF Records, States
<1> HIDE DEF T
<1>2. /\ cmd \in [Cmds -> Records] /\ c \in Cmds /\ label \in Labels /\ state \in States
      /\ todo \in T /\ errors \in SUBSET Entries
  BY Zenon DEF GoesOn, T
<1>3. cmd[c].role \in Roles /\ cmd[c].idp \in IdPs
  BY <1>1, <1>2
<1> DEFINE r == [pc |-> label, role |-> cmd[c].role, idp |-> cmd[c].idp,
                 state |-> state, todo |-> todo, deleteErrors |-> errors]
<1>4. r \in Records
  BY <1>1, <1>2, <1>3
<1>5. cmd' = [cmd EXCEPT ![c] = r]
  BY Zenon DEF GoesOn, GoOn
<1>6. /\ r.pc = label /\ r.role = cmd[c].role /\ r.idp = cmd[c].idp
      /\ r.state = state /\ r.todo = todo /\ r.deleteErrors = errors
  OBVIOUS
<1> HIDE DEF r
<1>7. cmd' \in [Cmds -> Records] /\ cmd'[c] = r /\ \A d \in Cmds \ {c} : cmd'[d] = cmd[d]
  BY <1>2, <1>4, <1>5
<1> QED
  BY <1>6, <1>7, Zenon DEF WentOn

(* A command that rests holds nothing.                                     *)
LEMMA ExitIs ==
    ASSUME cmd \in [Cmds -> Records], NEW c \in Cmds, Exit(c)
    PROVE  /\ cmd' \in [Cmds -> Records] /\ cmd'[c].pc = "exit" /\ cmd'[c].state = NoState
           /\ busy' = busy \ {c}
           /\ \A d \in Cmds \ {c} : cmd'[d] = cmd[d]
<1>1. "exit" \in Labels /\ "use" \in Roles /\ "A" \in IdPs /\ NoState \in States
  BY NoStateIs DEF Labels, Roles, IdPs
<1> HIDE DEF Labels, Entries, Tokens, None, Roles, IdPs, States, NoState
<1> DEFINE T == Seq(SUBSET Entries) r == Resting("exit")
<1>2. <<>> \in T
  OBVIOUS
<1>3. Records = [pc : Labels, role : Roles, idp : IdPs, state : States, todo : T, deleteErrors : SUBSET Entries]
  BY Zenon DEF Records, States
<1> HIDE DEF T
<1>4. r \in Records /\ r.pc = "exit" /\ r.state = NoState
  BY <1>1, <1>2, <1>3 DEF Resting
<1>5. cmd' = [cmd EXCEPT ![c] = r] /\ busy' = busy \ {c}
  BY Zenon DEF Exit
<1> HIDE DEF r
<1> QED
  BY <1>4, <1>5

(* The types in parts.                                                     *)
LEMMA TypeNext ==
    ASSUME cmd' \in [Cmds -> Records], store' \in States, profile' \in IdPs,
           idpOf' \in Seq(IdPs), Len(idpOf') <= MaxLogins,
           grants' \in [1..MaxLogins -> 0..MaxGrants], live' \in [1..MaxLogins -> 0..MaxGrants],
           fresh' \subseteq Tokens, busy' \subseteq Cmds,
           {raced', torn', lost'} \subseteq BOOLEAN /\ gone' \subseteq Entries
    PROVE  TypeOK'
<1> HIDE DEF Labels, Entries, Tokens, None, Roles, IdPs
<1> DEFINE T == Seq(SUBSET Entries)
<1> HIDE DEF T
<1>1. Records = [pc : Labels, role : Roles, idp : IdPs, state : States, todo : T, deleteErrors : SUBSET Entries]
  BY Zenon DEF Records, States, T
<1> HIDE DEF States
<1>2. \A c \in Cmds : /\ cmd'[c].pc \in Labels /\ cmd'[c].role \in Roles /\ cmd'[c].idp \in IdPs
                      /\ cmd'[c].state \in States /\ cmd'[c].todo \in T /\ cmd'[c].deleteErrors \in SUBSET Entries
  BY <1>1
<1> QED
  BY <1>2, Zenon DEF TypeOK, States, T
-----------------------------------------------------------------------------
(* Commands do not disturb one another, as long as they do not overlap.    *)

(* A command that is not between two accesses has every entry still to     *)
(* touch, and so nothing to say of the store.                              *)
LEMMA NotTouching ==
    ASSUME NEW c \in Cmds, ShapeInv(c), ~Touching(c)
    PROVE  /\ cmd[c].pc \in {"load", "save", "delete"} => Left(cmd[c].todo) = Entries
           /\ cmd[c].pc \notin {"decide", "grant"}
           /\ ~(cmd[c].pc = "save" /\ cmd[c].role = "use")
<1>1. cmd[c].pc = "load" => Left(cmd[c].todo) = Entries
  BY LoadWalk, Zenon DEF ShapeInv, Walk, Touching, Using
<1>2. cmd[c].pc = "save" => Left(cmd[c].todo) = Entries /\ cmd[c].role # "use"
  BY SaveWalk, Zenon DEF ShapeInv, Walk, Touching, Using, Writing
<1>3. cmd[c].pc = "delete" => Left(cmd[c].todo) = Entries
  BY DeleteWalk, Zenon DEF ShapeInv, Walk, Touching
<1>4. cmd[c].pc \notin {"decide", "grant"}
  BY Zenon DEF Touching, Using
<1> QED
  BY <1>1, <1>2, <1>3, <1>4, Zenon

(* What a step of another command may do to a command.                     *)
OthersStep(c) ==
  /\ \A d \in Cmds \ {c} : cmd'[d] = cmd[d]
  /\ busy \ {c} \subseteq busy'
  /\ (raced => raced') /\ (torn => torn')
  /\ Len(idpOf) \in Nat /\ Len(idpOf') \in Nat /\ Len(idpOf) <= Len(idpOf')
  /\ \A l \in 1..Len(idpOf) : idpOf'[l] = idpOf[l]
  /\ ~raced' => \/ busy \subseteq {c}
                \/ store' = store /\ \A l \in 1..Len(idpOf) : live'[l] = live[l]
  /\ \A l \in 1..Len(idpOf) : live'[l] = live[l] \/ \E e \in Entries : cmd[c].state[e][1] = l
  /\ \A e \in Entries : \/ store'[e][1] = 0 \/ store'[e][1] = store[e][1]
                        \/ store'[e][1] = cmd[c].state[e][1]
  /\ \A e \in Entries : LET l == cmd'[c].state[e][1]
                        IN  \/ l = 0 \/ l \notin 1..Len(idpOf)
                            \/ \E f \in Entries : l = store[f][1] \/ l = cmd[c].state[f][1]

(* What holds of a command survives a step of another.                     *)
LEMMA OthersKeep ==
    ASSUME TokenInv, NEW c \in Cmds, OthersStep(c), NEW d \in Cmds \ {c}
    PROVE  CmdInv(d)'
<1>1. CmdInv(d) /\ cmd'[d] = cmd[d] /\ (d \in busy => d \in busy')
  BY Zenon DEF TokenInv, OthersStep
<1>2. /\ Using(d)' <=> Using(d)
      /\ Writing(d)' <=> Writing(d)
      /\ Touching(d)' <=> Touching(d)
      /\ Refreshed(d)' <=> Refreshed(d)
      /\ NewLogin(d)' <=> NewLogin(d)
  BY <1>1, Zenon DEF Using, Writing, Touching, Refreshed, NewLogin
<1>3. ShapeInv(d)'
  BY <1>1, <1>2, ZenonT(90) DEF CmdInv, ShapeInv
<1> DEFINE n == Len(idpOf)
<1>4. \A l \in 1..n : l \in 1..Len(idpOf')
  BY DEF OthersStep
<1>5. HeldInv(d)'
  <2>1. MadeBy(cmd[d].state, Len(idpOf'))
    BY <1>1, <1>4, Zenon DEF CmdInv, HeldInv, MadeBy
  <2> QED
    BY <1>1, <2>1, Zenon DEF CmdInv, HeldInv
<1>6. cmd[d].pc \in {"grant", "save"} => cmd[d].state["refresh"][1] \in 1..n
  <2>1. "refresh" \in Entries /\ "refresh" # "access"
    BY DEF Entries
  <2> QED
    BY <1>1, <2>1, Zenon DEF CmdInv, HeldInv, MadeBy
<1>7. NewInv(d)'
  <2> SUFFICES ASSUME NewLogin(d)
               PROVE  NewInv(d)'
    BY <1>2, Zenon DEF NewInv
  <2> DEFINE t == cmd[d].state["refresh"]
  <2>1. /\ live[t[1]] = t[2] /\ t[1] \in 1..n
        /\ \A e \in Entries : store[e][1] # t[1]
        /\ \A b \in Cmds \ {d}, e \in Entries : cmd[b].state[e][1] # t[1]
    BY <1>1, <1>6, ZenonT(90) DEF CmdInv, NewInv, NewLogin
  <2>2. t[1] # 0
    BY <2>1
  <2> HIDE DEF t
  <2>3. live'[t[1]] = live[t[1]]
    <3>1. \A l \in 1..n : live'[l] = live[l] \/ \E e \in Entries : cmd[c].state[e][1] = l
      BY Zenon DEF OthersStep
    <3> HIDE DEF n
    <3>2. c \in Cmds \ {d}
      BY Zenon
    <3>3. \A e \in Entries : cmd[c].state[e][1] # t[1]
      BY <2>1, <3>2, Zenon
    <3> QED
      BY <2>1, <3>1, <3>3, Zenon
  <2> HIDE DEF n
  <2>4. ASSUME NEW e \in Entries
        PROVE  store'[e][1] # t[1]
    <3>1. store[e][1] # t[1] /\ cmd[c].state[e][1] # t[1]
      BY <2>1, Zenon
    <3> QED
      BY <2>2, <3>1, Zenon DEF OthersStep
  <2>5. ASSUME NEW b \in Cmds \ {d}, NEW e \in Entries
        PROVE  cmd'[b].state[e][1] # t[1]
    <3>1. CASE b = c
      <4>1. \A f \in Entries : store[f][1] # t[1] /\ cmd[c].state[f][1] # t[1]
        BY <2>1, Zenon
      <4> QED
        BY <2>1, <2>2, <3>1, <4>1 DEF OthersStep, n
    <3>2. CASE b # c
      BY <2>1, <3>2 DEF OthersStep
    <3> QED
      BY <3>1, <3>2
  <2> QED
    BY <1>1, <2>1, <2>3, <2>4, <2>5, ZenonT(90) DEF NewInv, t
<1>8. ~raced' => ViewInv(d)'
  <2>1. CASE Touching(d)
    <3>1. d \in busy
      BY <1>1, <2>1, Zenon DEF CmdInv, ShapeInv
    <3>2. ~raced' => store' = store /\ ~raced /\ \A l \in 1..n : live'[l] = live[l]
      BY <3>1, Zenon DEF OthersStep
    <3>3. ~raced' => (Refreshed(d) => live'[cmd[d].state["refresh"][1]] = live[cmd[d].state["refresh"][1]])
      BY <1>6, <3>2, Zenon DEF Refreshed
    <3> QED
      BY <1>1, <1>2, <3>2, <3>3, ZenonT(90) DEF CmdInv, ViewInv
  <2>2. CASE ~Touching(d)
    <3>1. /\ cmd[d].pc \in {"load", "save", "delete"} => Left(cmd[d].todo) = Entries
          /\ cmd[d].pc \notin {"decide", "grant"}
          /\ ~(cmd[d].pc = "save" /\ cmd[d].role = "use")
      BY <1>1, <2>2, NotTouching, Zenon DEF CmdInv
    <3> QED
      BY <1>1, <3>1, Zenon DEF ViewInv, Refreshed
  <2> QED
    BY <2>1, <2>2
<1>9. ~raced' /\ ~torn' => WholeInv(d)'
  <2>1. ~raced' /\ ~torn' => WholeInv(d)
    BY <1>1, Zenon DEF CmdInv, OthersStep
  <2> QED
    <3>1. cmd[d].pc = "grant" => idpOf'[cmd[d].state["refresh"][1]] = idpOf[cmd[d].state["refresh"][1]]
      BY <1>6, Zenon DEF OthersStep
    <3> QED
      BY <1>1, <2>1, <3>1, ZenonT(90) DEF WholeInv, SameLogin
<1> QED
  BY <1>3, <1>5, <1>7, <1>8, <1>9, Zenon DEF CmdInv

(* What the types say of the variables.                                    *)
LEMMA Typed ==
    ASSUME TokenInv
    PROVE  /\ cmd \in [Cmds -> Records] /\ store \in States /\ profile \in IdPs
           /\ idpOf \in Seq(IdPs) /\ Len(idpOf) <= MaxLogins /\ Len(idpOf) \in Nat
           /\ grants \in [1..MaxLogins -> 0..MaxGrants] /\ live \in [1..MaxLogins -> 0..MaxGrants]
           /\ fresh \subseteq Tokens /\ busy \subseteq Cmds
           /\ {raced, torn, lost} \subseteq BOOLEAN /\ gone \subseteq Entries
           /\ \A c \in Cmds : /\ cmd[c].pc \in Labels /\ cmd[c].role \in Roles /\ cmd[c].idp \in IdPs
                              /\ cmd[c].state \in States /\ cmd[c].todo \in Seq(SUBSET Entries)
                              /\ cmd[c].deleteErrors \subseteq Entries
<1>1. TypeOK /\ cmd \in [Cmds -> Records]
  BY Zenon DEF TokenInv
<1>2. Len(idpOf) \in Nat
  <2>1. idpOf \in Seq(IdPs)
    BY <1>1, Zenon DEF TypeOK
  <2> QED
    BY <2>1
<1> QED
  BY <1>1, <1>2, Zenon DEF TypeOK, States

(* The entries of a state that holds nothing are no login's.               *)
LEMMA NothingHeld ==
    ASSUME NEW n \in Nat
    PROVE  MadeBy(NoState, n) /\ \A e \in Entries : NoState[e][1] = 0
BY NoStateIs, TokensAre, Zenon DEF MadeBy

(* A command that is done, or has not begun, satisfies its part.           *)
LEMMA RestingKeeps ==
    ASSUME NEW c \in Cmds, cmd'[c].pc \in {"idle", "exit"}, cmd'[c].state = NoState,
           Len(idpOf') \in Nat
    PROVE  CmdInv(c)'
<1>1. ~Touching(c)' /\ ~Refreshed(c)' /\ ~NewLogin(c)'
  BY DEF Touching, Using, Writing, Refreshed, NewLogin
<1>2. ShapeInv(c)'
  BY <1>1 DEF ShapeInv
<1>3. HeldInv(c)'
  <2>1. MadeBy(cmd'[c].state, Len(idpOf'))
    BY NothingHeld
  <2> QED
    BY <2>1 DEF HeldInv
<1>4. NewInv(c)' /\ ViewInv(c)' /\ WholeInv(c)'
  BY <1>1 DEF NewInv, ViewInv, WholeInv
<1> QED
  BY <1>2, <1>3, <1>4, Zenon DEF CmdInv

(* Everything holds again once the step has been seen from the command     *)
(* that takes it and from the store.                                       *)
LEMMA StepKeeps ==
    ASSUME TokenInv, NEW c \in Cmds, TypeOK', cmd' \in [Cmds -> Records],
           OthersStep(c), CmdInv(c)', StoreInv'
    PROVE  TokenInv'
<1>1. \A d \in Cmds \ {c} : CmdInv(d)'
  BY OthersKeep
<1> QED
  BY <1>1, Zenon DEF TokenInv

(* A step that writes nothing keeps what is known of the store, when every *)
(* command that is writing or has refreshed goes on, or is recorded.       *)
LEMMA StoreStays ==
    ASSUME StoreInv, UNCHANGED store, UNCHANGED gone \/ LogoutClears',
           Len(idpOf) \in Nat, Len(idpOf') \in Nat, Len(idpOf) <= Len(idpOf'),
           raced => raced', torn => torn', lost => lost', ~raced' => \A b, d \in busy' : b = d,
           ~raced' /\ ~torn' => \A d \in busy : Writing(d) => d \in busy' /\ Writing(d)',
           ~raced' /\ ~lost' => \A d \in busy : Refreshed(d) => d \in busy' /\ Refreshed(d)',
           store["refresh"] # None => live'[store["refresh"][1]] = live[store["refresh"][1]]
    PROVE  StoreInv'
<1>1. ~raced' /\ ~torn' => SameLogin(store') \/ \E d \in busy' : Writing(d)'
  BY Zenon DEF StoreInv
<1>2. ~raced' /\ ~lost' => \/ store'["refresh"] = None
                           \/ live'[store'["refresh"][1]] = store'["refresh"][2]
                           \/ \E d \in busy' : Refreshed(d)'
  BY ZenonT(90) DEF StoreInv
<1>3. \A l \in 1..Len(idpOf) : l \in 1..Len(idpOf')
  OBVIOUS
<1>4. LogoutClears' /\ MadeBy(store', Len(idpOf'))
  BY <1>3, ZenonT(90) DEF StoreInv, LogoutClears, MadeBy
<1> QED
  BY <1>1, <1>2, <1>4, Zenon DEF StoreInv

(* A command that returns without an access of its own, or with one that   *)
(* failed, leaves the store as it is.                                      *)
LEMMA ExitKeeps ==
    ASSUME TokenInv, NEW c \in Cmds, Exit(c), UNCHANGED <<store, profile, idp>>,
           UNCHANGED gone \/ (gone' \subseteq Entries /\ LogoutClears'),
           {raced', torn', lost'} \subseteq BOOLEAN, raced => raced', torn => torn', lost => lost',
           ~raced' /\ Writing(c) => torn', ~raced' /\ Refreshed(c) => lost'
    PROVE  TokenInv'
<1>1. /\ cmd' \in [Cmds -> Records] /\ cmd'[c].pc = "exit" /\ cmd'[c].state = NoState
      /\ busy' = busy \ {c} /\ \A d \in Cmds \ {c} : cmd'[d] = cmd[d]
  BY Typed, ExitIs
<1>2. UNCHANGED <<idpOf, grants, live, fresh>> /\ Len(idpOf) \in Nat
  BY Typed, Zenon DEF idp
<1>3. TypeOK'
  <2>1. {raced', torn', lost'} \subseteq BOOLEAN /\ gone' \subseteq Entries /\ busy' \subseteq Cmds
    BY <1>1, Typed, ZenonT(90)
  <2> QED
    BY <1>1, <1>2, <2>1, Typed, TypeNext, ZenonT(90)
<1>4. CmdInv(c)'
  BY <1>1, <1>2, RestingKeeps
<1>5. OthersStep(c)
  <2>1. \A e \in Entries : cmd'[c].state[e][1] = 0
    BY <1>1, <1>2, NothingHeld, ZenonT(90)
  <2>2. Len(idpOf) <= Len(idpOf')
    BY <1>2
  <2> QED
    BY <1>1, <1>2, <2>1, <2>2, Zenon DEF OthersStep
<1>6. StoreInv'
  <2>1. StoreInv
    BY Zenon DEF TokenInv
  <2>2. \A d \in busy : d # c => /\ d \in busy'
                                 /\ Writing(d) => Writing(d)'
                                 /\ Refreshed(d) => Refreshed(d)'
    BY <1>1, Typed, Zenon DEF Writing, Refreshed
  <2>3. ~raced' => \A b, d \in busy' : b = d
    BY <1>1, <2>1, Zenon DEF StoreInv
  <2>4. Len(idpOf) <= Len(idpOf')
    BY <1>2
  <2> QED
    BY <1>2, <2>1, <2>2, <2>3, <2>4, StoreStays, ZenonT(90)
<1> QED
  BY <1>1, <1>3, <1>4, <1>5, <1>6, StepKeeps

(* Every way to return but the end of a save or of a delete.               *)
LEMMA LeavesKeep ==
    ASSUME TokenInv, NEW c \in Cmds, GrantFails(c) \/ Kill(c)
    PROVE  TokenInv'
<1>1. /\ Exit(c) /\ UNCHANGED <<store, profile, idp, raced, gone>>
      /\ torn' = (torn \/ (cmd[c].pc = "save" /\ cmd[c].todo # SaveOrder))
      /\ lost' = (lost \/ (cmd[c].pc = "save" /\ cmd[c].todo = SaveOrder))
  <2>1. CASE GrantFails(c)
    <3>1. cmd[c].pc # "save" /\ UNCHANGED <<torn, lost>> /\ {torn, lost} \subseteq BOOLEAN
      BY <2>1, Typed DEF GrantFails
    <3> QED
      BY <2>1, <3>1, ZenonT(90) DEF GrantFails
  <2>2. CASE Kill(c)
    BY <2>2, Zenon DEF Kill
  <2> QED
    BY <2>1, <2>2
<1>2. {raced', torn', lost'} \subseteq BOOLEAN
  BY <1>1, Typed, Zenon
<1>3. (Writing(c) => torn') /\ (Refreshed(c) => lost')
  BY <1>1, Zenon DEF Writing, Refreshed
<1> QED
  BY <1>1, <1>2, <1>3, ExitKeeps, ZenonT(90)

(* A command starts and has touched nothing.                               *)
LEMMA StartKeeps ==
    ASSUME TokenInv, NEW c \in Cmds, NEW r \in Roles, Start(c, r)
    PROVE  TokenInv'
<1>1. PICK label \in {"exchange", "load", "delete"}, todo \in {<<>>, LoadOrder, DeleteOrder} :
        /\ cmd' = [cmd EXCEPT ![c] = [pc |-> label, role |-> r, idp |-> profile, state |-> NoState,
                                      todo |-> todo, deleteErrors |-> {}]]
        /\ label = "exchange" => r = "login"
        /\ label = "load" => r = "use" /\ todo = LoadOrder
        /\ label = "delete" => todo = DeleteOrder
  <2>1. CASE r = "login"
    BY <2>1, Zenon DEF Start
  <2>2. CASE r = "use"
    BY <2>2, Zenon DEF Start
  <2>3. CASE r = "logout"
    BY <2>3, Zenon DEF Start
  <2> QED
    BY <2>1, <2>2, <2>3, Zenon DEF Roles
<1>2. UNCHANGED <<store, profile, idpOf, grants, live, fresh, busy, raced, torn, lost, gone>>
  BY Zenon DEF Start, idp
<1>3. /\ cmd' \in [Cmds -> Records] /\ cmd'[c].pc = label /\ cmd'[c].role = r
      /\ cmd'[c].state = NoState /\ cmd'[c].todo = todo
      /\ \A d \in Cmds \ {c} : cmd'[d] = cmd[d]
  <2>1. label \in Labels
    BY DEF Labels
  <2>2. LoadOrder \in Seq(SUBSET Entries) /\ DeleteOrder \in Seq(SUBSET Entries)
    BY LoadWalk, DeleteWalk, Zenon DEF Walk, LoadTodos, DeleteTodos
  <2> HIDE DEF Labels, Entries, Tokens, None, Roles, IdPs, States, NoState
  <2> DEFINE T == Seq(SUBSET Entries)
  <2>3. todo \in T
    <3>1. <<>> \in Seq(SUBSET Entries)
      OBVIOUS
    <3> QED
      BY <2>2, <3>1, Zenon
  <2>4. Records = [pc : Labels, role : Roles, idp : IdPs, state : States, todo : T, deleteErrors : SUBSET Entries]
    BY ZenonT(90) DEF Records, States
  <2> HIDE DEF T
  <2> DEFINE rec == [pc |-> label, role |-> r, idp |-> profile, state |-> NoState,
                     todo |-> todo, deleteErrors |-> {}]
  <2>5. rec \in Records /\ rec.pc = label /\ rec.role = r /\ rec.state = NoState /\ rec.todo = todo
    BY <2>1, <2>3, <2>4, Typed, NoStateIs
  <2>6. cmd' = [cmd EXCEPT ![c] = rec]
    BY <1>1, Zenon
  <2> HIDE DEF rec
  <2> QED
    BY <2>5, <2>6, Typed
<1>4. TypeOK'
  BY <1>2, <1>3, Typed, TypeNext, Zenon
<1>5. OthersStep(c)
  <2>1. \A e \in Entries : cmd'[c].state[e][1] = 0
    BY <1>3, Typed, NothingHeld, ZenonT(90)
  <2>2. Len(idpOf) <= Len(idpOf') /\ Len(idpOf) \in Nat
    BY <1>2, Typed
  <2> QED
    BY <1>2, <1>3, <2>1, <2>2, Zenon DEF OthersStep
<1>6. CmdInv(c)'
  <2>1. LoadOrder \in LoadTodos /\ DeleteOrder \in DeleteTodos
    BY Zenon DEF LoadTodos, DeleteTodos
  <2>2. ~Touching(c)' /\ ~Refreshed(c)' /\ ~NewLogin(c)'
    BY <1>1, <1>3, Zenon DEF Touching, Using, Writing, Refreshed, NewLogin
  <2>3. ShapeInv(c)'
    BY <1>1, <1>3, <2>1, <2>2, Zenon DEF ShapeInv
  <2>4. Left(LoadOrder) = Entries /\ Left(DeleteOrder) = Entries
    BY <2>1, LoadWalk, DeleteWalk, Zenon DEF Walk
  <2>5. MadeBy(cmd'[c].state, Len(idpOf'))
    BY <1>2, <1>3, Typed, NothingHeld, Zenon
  <2>6. HeldInv(c)'
    BY <1>1, <1>3, <2>4, <2>5, Zenon DEF HeldInv
  <2>7. NewInv(c)' /\ ViewInv(c)' /\ WholeInv(c)'
    BY <1>1, <1>3, <2>2, <2>4, ZenonT(90) DEF NewInv, ViewInv, WholeInv
  <2> QED
    BY <2>3, <2>6, <2>7, Zenon DEF CmdInv
<1>7. StoreInv'
  <2>1. StoreInv /\ ~Touching(c) /\ cmd[c].pc = "idle"
    BY DEF TokenInv, Start, Touching, Using, Writing
  <2>2. \A d \in busy : (Writing(d) => Writing(d)') /\ (Refreshed(d) => Refreshed(d)')
    BY <1>3, <2>1, Typed, ZenonT(90) DEF Writing, Refreshed
  <2>3. Len(idpOf) <= Len(idpOf') /\ Len(idpOf) \in Nat
    BY <1>2, Typed
  <2>4. ~raced' => \A b, d \in busy' : b = d
    BY <1>2, <2>1, Zenon DEF StoreInv
  <2> QED
    BY <1>2, <2>1, <2>2, <2>3, <2>4, StoreStays, ZenonT(90)
<1> QED
  BY <1>3, <1>4, <1>5, <1>6, <1>7, StepKeeps

(* An access is no overlap only when nobody else is under way.             *)
LEMMA AccessIs ==
    ASSUME TokenInv, NEW c \in Cmds, raced' = (raced \/ busy \ {c} # {})
    PROVE  /\ raced' \in BOOLEAN /\ (raced => raced')
           /\ ~raced' => ~raced /\ busy \subseteq {c}
BY Typed, Zenon

(* A read that finds its entries adds them to the command's view; one that *)
(* finds none ends the command.                                            *)
LEMMA LoadKeeps ==
    ASSUME TokenInv, NEW c \in Cmds, Load(c)
    PROVE  TokenInv'
<1> DEFINE todo == cmd[c].todo
           state == cmd[c].state
           got == [e \in Entries |-> IF e \in Head(todo) THEN store[e] ELSE state[e]]
           label == IF Len(todo) = 1 THEN "decide" ELSE "load"
<1>1. /\ cmd[c].pc = "load" /\ raced' = (raced \/ busy \ {c} # {})
      /\ UNCHANGED <<store, profile, idp, torn, lost, gone>>
      /\ UNCHANGED <<idpOf, grants, live, fresh>>
  BY Zenon DEF Load, idp
<1>2. CASE Exit(c)
  <2>1. ~Writing(c) /\ ~Refreshed(c)
    BY <1>1 DEF Writing, Refreshed
  <2>2. {raced', torn', lost'} \subseteq BOOLEAN
    BY <1>1, AccessIs, Typed, Zenon
  <2> QED
    BY <1>1, <1>2, <2>1, <2>2, AccessIs, ExitKeeps, ZenonT(90)
<1>3. CASE /\ \A e \in Head(todo) \ {"access"} : store[e] # None
           /\ busy' = busy \cup {c}
           /\ GoOn(c, label, got, Tail(todo), {})
  <2>1. /\ CmdInv(c) /\ StoreInv /\ ShapeInv(c) /\ HeldInv(c) /\ todo \in LoadTodos
        /\ cmd[c].role = "use" /\ store \in States /\ state \in States /\ Len(idpOf) \in Nat
    BY <1>1, Typed, Zenon DEF TokenInv, CmdInv, ShapeInv
  <2>2. /\ Tail(todo) \in Seq(SUBSET Entries) /\ Head(todo) \subseteq Left(todo)
        /\ Left(todo) \subseteq Entries
        /\ Len(todo) = 1 => Left(todo) = Head(todo)
        /\ Len(todo) # 1 => /\ Tail(todo) \in LoadTodos \ {LoadOrder}
                            /\ Left(Tail(todo)) = Left(todo) \ Head(todo)
    BY <2>1, LoadWalk, Zenon DEF Walk
  <2>3. got \in States /\ label \in Labels
    <3>1. got \in States
      BY <2>1, Zenon DEF States
    <3> QED
      BY <3>1 DEF Labels
  <2>4. /\ cmd' \in [Cmds -> Records] /\ cmd'[c].pc = label /\ cmd'[c].role = "use"
        /\ cmd'[c].state = got /\ cmd'[c].todo = Tail(todo)
        /\ \A d \in Cmds \ {c} : cmd'[d] = cmd[d]
    <3>1. cmd \in [Cmds -> Records]
      BY Typed, Zenon
    <3> DEFINE rest == Tail(todo)
               errors == {}
    <3>2. GoOn(c, label, got, rest, errors) /\ rest \in Seq(SUBSET Entries) /\ errors \subseteq Entries
      BY <1>3, <2>2, <3>1, Zenon
    <3>3. cmd[c].role = "use"
      BY <2>1, Zenon
    <3> HIDE DEF got, label, rest, errors
    <3>4. WentOn(c, label, got, rest, errors)
      BY <2>3, <3>1, <3>2, GoOnIs, Zenon DEF GoesOn
    <3> QED
      BY <3>3, <3>4, Zenon DEF WentOn, rest
  <2>5. TypeOK'
    <3>1. {raced', torn', lost'} \subseteq BOOLEAN /\ gone' \subseteq Entries /\ busy' \subseteq Cmds
      BY <1>1, <1>3, AccessIs, Typed, Zenon
    <3> QED
      BY <1>1, <2>4, <3>1, Typed, TypeNext, Zenon
  <2>6. \A e \in Entries : /\ e \in Head(todo) => got[e] = store[e]
                           /\ e \notin Head(todo) => got[e] = state[e]
    BY Zenon
  <2> HIDE DEF got, state
  <2>7. OthersStep(c)
    <3>1. Len(idpOf) <= Len(idpOf')
      BY <1>1, <2>1
    <3>2. \A e \in Entries : \E f \in Entries : got[e][1] = store[f][1] \/ got[e][1] = state[f][1]
      BY <2>6, ZenonT(90)
    <3> QED
      BY <1>1, <1>3, <2>1, <2>4, <3>1, <3>2, AccessIs, ZenonT(90) DEF OthersStep, state
  <2>8. ShapeInv(c)'
    <3>1. label = "load" => Tail(todo) \in LoadTodos
      BY <2>2, Zenon
    <3>2. c \in busy' /\ label \in {"load", "decide"}
      BY <1>3, Zenon
    <3> HIDE DEF label
    <3> QED
      BY <2>4, <3>1, <3>2 DEF ShapeInv
  <2>9. HeldInv(c)'
    <3>1. MadeBy(got, Len(idpOf'))
      BY <1>1, <2>1, <2>6, Zenon DEF HeldInv, StoreInv, MadeBy, state
    <3>2. \A e \in Entries \ ((Left(todo) \ Head(todo)) \cup {"access"}) : got[e] # None
      BY <1>1, <1>3, <2>1, <2>6, ZenonT(90) DEF HeldInv, state
    <3>3. CASE Len(todo) = 1
      <4>1. label = "decide" /\ \A e \in Entries \ {"access"} : got[e] # None
        BY <2>2, <3>2, <3>3, ZenonT(90)
      <4> QED
        BY <2>4, <3>1, <4>1 DEF HeldInv
    <3>4. CASE Len(todo) # 1
      <4>1. label = "load" /\ \A e \in Entries \ (Left(Tail(todo)) \cup {"access"}) : got[e] # None
        BY <2>2, <3>2, <3>4, Zenon
      <4> QED
        BY <2>4, <3>1, <4>1 DEF HeldInv
    <3> QED
      BY <3>3, <3>4
  <2>10. label \in {"load", "decide"}
    BY ZenonT(90)
  <2>11. NewInv(c)' /\ WholeInv(c)'
    <3> HIDE DEF label
    <3> QED
      BY <2>4, <2>10 DEF NewInv, NewLogin, WholeInv
  <2>12. ~raced' => ViewInv(c)'
    <3> SUFFICES ASSUME ~raced'
                 PROVE  ViewInv(c)'
      OBVIOUS
    <3>1. \A e \in Entries \ Left(todo) : store[e] = state[e]
      BY <1>1, <2>1, AccessIs, Zenon DEF CmdInv, ViewInv, state
    <3>2. \A e \in Entries \ (Left(todo) \ Head(todo)) : store'[e] = got[e]
      BY <1>1, <2>6, <3>1, ZenonT(90)
    <3>3. CASE Len(todo) = 1
      <4>1. label = "decide" /\ \A e \in Entries : store'[e] = got[e]
        BY <2>2, <3>2, <3>3, ZenonT(90)
      <4> QED
        BY <2>4, <4>1 DEF ViewInv, Refreshed
    <3>4. CASE Len(todo) # 1
      <4>1. label = "load" /\ \A e \in Entries \ Left(Tail(todo)) : store'[e] = got[e]
        BY <2>2, <3>2, <3>4, ZenonT(90)
      <4> QED
        BY <2>4, <4>1 DEF ViewInv, Refreshed
    <3> QED
      BY <3>3, <3>4
  <2>13. StoreInv'
    <3>1. ~raced' => busy \subseteq {c} /\ \A b, d \in busy' : b = d
      BY <1>1, <1>3, AccessIs, ZenonT(90)
    <3>2. ~raced' => \A d \in busy : ~Writing(d) /\ ~Refreshed(d)
      BY <1>1, <3>1 DEF Writing, Refreshed
    <3>3. Len(idpOf) <= Len(idpOf')
      BY <1>1, <2>1
    <3> QED
      BY <1>1, <2>1, <3>1, <3>2, <3>3, AccessIs, StoreStays, ZenonT(90)
  <2> QED
    BY <2>4, <2>5, <2>7, <2>8, <2>9, <2>11, <2>12, <2>13, StepKeeps, ZenonT(90) DEF CmdInv
<1> QED
  BY <1>2, <1>3, Zenon DEF Load

(* The one command under way, if no commands overlapped.                   *)
LEMMA Alone ==
    ASSUME TokenInv, NEW c \in Cmds, Touching(c), ~raced
    PROVE  c \in busy /\ \A d \in busy : d = c
BY Zenon DEF TokenInv, CmdInv, ShapeInv, StoreInv

(* What a command loaded is of one login, as the store it was read from.   *)
LEMMA LoadedWhole ==
    ASSUME TokenInv, NEW c \in Cmds, cmd[c].pc \in {"decide", "grant"}, ~raced, ~torn
    PROVE  SameLogin(store) /\ cmd[c].state["refresh"][1] = cmd[c].state["meta"][1]
<1> DEFINE state == cmd[c].state
<1>1. Touching(c) /\ ~Writing(c)
  BY DEF Touching, Using, Writing
<1>2. SameLogin(store)
  BY <1>1, Alone, Zenon DEF TokenInv, StoreInv
<1>3. "refresh" \in Entries \ {"access"} /\ "meta" \in Entries \ {"access"}
  BY DEF Entries
<1>4. /\ store["refresh"] = state["refresh"] /\ store["meta"] = state["meta"]
      /\ state["refresh"] # None /\ state["meta"] # None
  BY <1>3, ZenonT(90) DEF TokenInv, CmdInv, ViewInv, HeldInv
<1> QED
  BY <1>2, <1>3, <1>4, ZenonT(90) DEF SameLogin

(* The cached state is used only when it belongs to the profile's IdP, and *)
(* it is of one login, so that its refresh token belongs there too.        *)
LEMMA DecideKeeps ==
    ASSUME TokenInv, NEW c \in Cmds, Decide(c)
    PROVE  TokenInv'
<1> DEFINE state == cmd[c].state
<1>1. /\ cmd[c].pc = "decide" /\ UNCHANGED <<store, profile, idp, raced, torn, lost, gone>>
      /\ UNCHANGED <<idpOf, grants, live, fresh>>
  BY Zenon DEF Decide, idp
<1>2. CASE Exit(c)
  <2>1. ~Writing(c) /\ ~Refreshed(c)
    BY <1>1 DEF Writing, Refreshed
  <2>2. {raced', torn', lost'} \subseteq BOOLEAN
    BY <1>1, Typed, Zenon
  <2> QED
    BY <1>1, <1>2, <2>1, <2>2, ExitKeeps, Zenon
<1>3. CASE Usable(c) /\ GoOn(c, "grant", state, <<>>, {}) /\ UNCHANGED busy
  <2>1. /\ CmdInv(c) /\ StoreInv /\ ShapeInv(c) /\ HeldInv(c)
        /\ cmd[c].role = "use" /\ state \in States /\ Len(idpOf) \in Nat
    BY <1>1, Typed, Zenon DEF TokenInv, CmdInv, ShapeInv
  <2>2. /\ cmd' \in [Cmds -> Records] /\ cmd'[c].pc = "grant" /\ cmd'[c].role = cmd[c].role
        /\ cmd'[c].idp = cmd[c].idp /\ cmd'[c].state = state
        /\ \A d \in Cmds \ {c} : cmd'[d] = cmd[d]
    <3> DEFINE errors == {}
               rest == <<>>
               label == "grant"
    <3>1. label \in Labels /\ rest \in Seq(SUBSET Entries)
      BY DEF Labels
    <3>2. /\ GoOn(c, label, state, rest, errors) /\ errors \subseteq Entries /\ cmd \in [Cmds -> Records]
          /\ state \in States
      BY <1>3, <2>1, Typed, Zenon
    <3> HIDE DEF errors, state, rest, label
    <3>3. WentOn(c, label, state, rest, errors)
      BY <3>1, <3>2, GoOnIs, Zenon DEF GoesOn
    <3> QED
      BY <3>3, Zenon DEF WentOn, label
  <2>3. TypeOK'
    BY <1>1, <1>3, <2>2, Typed, TypeNext, ZenonT(90)
  <2>4. OthersStep(c)
    <3>1. Len(idpOf) <= Len(idpOf')
      BY <1>1, <2>1
    <3> QED
      BY <1>1, <1>3, <2>1, <2>2, <3>1, ZenonT(90) DEF OthersStep
  <2>5. Touching(c) /\ c \in busy
    BY <1>1, <2>1, ZenonT(90) DEF ShapeInv, Touching, Using
  <2>6. ShapeInv(c)'
    BY <1>3, <2>1, <2>2, <2>5 DEF ShapeInv
  <2>7. HeldInv(c)'
    <3>1. MadeBy(state, Len(idpOf')) /\ \A e \in Entries \ {"access"} : state[e] # None
      BY <1>1, <2>1, ZenonT(90) DEF HeldInv
    <3> QED
      BY <2>2, <3>1 DEF HeldInv
  <2>8. NewInv(c)' /\ (~raced' => ViewInv(c)')
    <3>1. ~raced' => \A e \in Entries : store[e] = state[e]
      BY <1>1, <2>1, ZenonT(90) DEF CmdInv, ViewInv
    <3> QED
      BY <1>1, <2>2, <3>1 DEF NewInv, NewLogin, ViewInv, Refreshed
  <2>9. ~raced' /\ ~torn' => WholeInv(c)'
    <3> SUFFICES ASSUME ~raced', ~torn'
                 PROVE  WholeInv(c)'
      OBVIOUS
    <3>1. state["refresh"][1] = state["meta"][1]
      BY <1>1, LoadedWhole, Zenon
    <3>2. idpOf[state["refresh"][1]] = cmd[c].idp
      BY <1>3, <3>1, Zenon DEF Usable
    <3> QED
      BY <1>1, <2>2, <3>2 DEF WholeInv
  <2>10. StoreInv'
    <3>1. \A d \in busy : (Writing(d) => Writing(d)') /\ (Refreshed(d) => Refreshed(d)')
      BY <1>1, <2>2, Typed, Zenon DEF Writing, Refreshed
    <3>2. ~raced' => \A b, d \in busy' : b = d
      BY <1>1, <1>3, <2>1, ZenonT(90) DEF StoreInv
    <3>3. Len(idpOf) <= Len(idpOf')
      BY <1>1, <2>1
    <3> QED
      BY <1>1, <1>3, <2>1, <3>1, <3>2, <3>3, StoreStays, ZenonT(90)
  <2> QED
    BY <2>2, <2>3, <2>4, <2>6, <2>7, <2>8, <2>9, <2>10, StepKeeps, ZenonT(90) DEF CmdInv
<1> QED
  BY <1>2, <1>3, Zenon DEF Decide

(* A refresh moves the live grant to the tokens the command now holds; the *)
(* store's are behind until the first write.                               *)
LEMMA GrantKeeps ==
    ASSUME TokenInv, NEW c \in Cmds, Grant(c)
    PROVE  TokenInv'
<1> DEFINE state == cmd[c].state
           l == state["refresh"][1]
           n == grants[l] + 1
           a == <<l, n>>
<1>1. PICK rotate \in BOOLEAN :
        /\ live' = IF rotate THEN [live EXCEPT ![l] = n] ELSE live
        /\ GoOn(c, "save", Merged(state, a, IF rotate THEN a ELSE state["refresh"]),
                SaveOrder, {})
  BY Zenon DEF Grant
<1> DEFINE r == IF rotate THEN a ELSE state["refresh"]
           new == Merged(state, a, r)
<1>2. /\ cmd[c].pc = "grant" /\ live[l] = state["refresh"][2] /\ n <= MaxGrants
      /\ grants' = [grants EXCEPT ![l] = n] /\ fresh' = fresh \cup {a}
      /\ UNCHANGED <<store, profile, idpOf, busy, raced, torn, lost, gone>>
  BY Zenon DEF Grant
<1>3. /\ CmdInv(c) /\ StoreInv /\ ShapeInv(c) /\ HeldInv(c)
      /\ cmd[c].role = "use" /\ state \in States /\ Len(idpOf) \in Nat /\ Len(idpOf) <= MaxLogins
  BY <1>2, Typed, ZenonT(90) DEF TokenInv, CmdInv, ShapeInv
<1>4. /\ state["refresh"] # None /\ state["meta"] # None /\ l \in 1..Len(idpOf) /\ l \in 1..MaxLogins
      /\ state["refresh"] \in Tokens /\ state["meta"] \in Tokens
  <2>1. "refresh" \in Entries \ {"access"} /\ "meta" \in Entries \ {"access"}
    BY DEF Entries
  <2>2. state["refresh"] # None /\ state["meta"] # None /\ l \in 1..Len(idpOf)
    BY <1>2, <1>3, <2>1, ZenonT(90) DEF HeldInv, MadeBy
  <2>3. state["refresh"] \in Tokens /\ state["meta"] \in Tokens
    BY <1>3, <2>1, <2>2, ZenonT(90) DEF States
  <2> HIDE DEF l
  <2> QED
    BY <1>3, <2>2, <2>3, TokenStoreAssumption
<1>5. n \in 0..MaxGrants /\ a \in Tokens /\ a[1] = l /\ a[2] = n /\ a # None
  <2>1. grants[l] \in 0..MaxGrants
    BY <1>4, Typed, ZenonT(90)
  <2>2. n \in 0..MaxGrants
    BY <1>2, <2>1, TokenStoreAssumption
  <2> HIDE DEF l, n
  <2> QED
    BY <1>4, <2>2, TokensAre
<1>6. r \in Tokens /\ r # None /\ r[1] = l
  BY <1>4, <1>5, ZenonT(90)
<1>7. /\ live' \in [1..MaxLogins -> 0..MaxGrants] /\ live'[l] = r[2]
      /\ \A k \in 1..MaxLogins : k # l => live'[k] = live[k]
  <2>1. live \in [1..MaxLogins -> 0..MaxGrants]
    BY Typed, Zenon
  <2>2. live[l] = state["refresh"][2] /\ l \in 1..MaxLogins /\ n \in 0..MaxGrants /\ a[2] = n
    BY <1>2, <1>4, <1>5, ZenonT(90)
  <2>3. CASE rotate
    <3>1. live' = [live EXCEPT ![l] = n] /\ r = a
      BY <1>1, <2>3, Zenon
    <3> HIDE DEF l, n, r, a
    <3> QED
      BY <2>1, <2>2, <3>1
  <2>4. CASE ~rotate
    <3>1. live' = live /\ r = state["refresh"]
      BY <1>1, <2>4, ZenonT(90)
    <3> HIDE DEF l, n, r, a
    <3> QED
      BY <2>1, <2>2, <3>1, Zenon
  <2> QED
    BY <2>3, <2>4
<1>8. new \in States /\ new["access"] = a /\ new["refresh"] = r /\ new["meta"] = state["meta"]
  <2> HIDE DEF a, r, state, Tokens, None
  <2> QED
    BY <1>3, <1>5, <1>6, SMTT(60) DEF Merged, States, Entries
<1>9. /\ cmd' \in [Cmds -> Records] /\ cmd'[c].pc = "save" /\ cmd'[c].role = cmd[c].role
      /\ cmd'[c].state = new /\ cmd'[c].todo = SaveOrder
      /\ \A d \in Cmds \ {c} : cmd'[d] = cmd[d]
  <2> DEFINE errors == {}
             label == "save"
             rest == SaveOrder
  <2>1. label \in Labels
    BY DEF Labels
  <2>2. rest \in Seq(SUBSET Entries)
    BY SaveWalk, Zenon DEF Walk, SaveTodos
  <2>3. /\ GoOn(c, label, new, rest, errors) /\ errors \subseteq Entries /\ cmd \in [Cmds -> Records]
        /\ new \in States
    BY <1>1, <1>8, Typed, Zenon
  <2> HIDE DEF errors, label, new, rest
  <2>4. WentOn(c, label, new, rest, errors)
    BY <2>1, <2>2, <2>3, GoOnIs, ZenonT(90) DEF GoesOn
  <2> QED
    BY <2>4, ZenonT(90) DEF WentOn, label, rest
<1> HIDE DEF a, r, new, n
<1>10. \A e \in Entries : e = "refresh" \/ e = "access" \/ e = "meta"
  BY DEF Entries
<1>11. "refresh" \in Entries /\ "meta" \in Entries /\ "access" \in Entries
  BY DEF Entries
<1>12. \A e \in Entries : new[e] # None /\ (new[e][1] = l \/ new[e][1] = state["meta"][1])
  BY <1>4, <1>5, <1>6, <1>8, <1>10, ZenonT(90)
<1>13. TypeOK'
  <2>1. grants' \in [1..MaxLogins -> 0..MaxGrants]
    BY <1>2, <1>4, <1>5, Typed
  <2>2. fresh' \subseteq Tokens
    BY <1>2, <1>5, Typed, Zenon
  <2> QED
    BY <1>2, <1>7, <1>9, <2>1, <2>2, Typed, TypeNext, ZenonT(90)
<1>14. Touching(c) /\ c \in busy /\ (~raced => \A d \in busy : d = c)
  <2>1. Touching(c)
    BY <1>2 DEF Touching, Using
  <2> QED
    BY <1>3, <2>1, Alone, ZenonT(90) DEF ShapeInv
<1>15. OthersStep(c)
  <2>1. Len(idpOf) <= Len(idpOf') /\ \A k \in 1..Len(idpOf) : k \in 1..MaxLogins
    BY <1>2, <1>3, TokenStoreAssumption
  <2> HIDE DEF state
  <2>2. \A k \in 1..Len(idpOf) : live'[k] = live[k] \/ k = l
    BY <1>7, <2>1, ZenonT(90)
  <2> QED
    BY <1>2, <1>3, <1>9, <1>11, <1>12, <1>14, <2>1, <2>2, ZenonT(90) DEF OthersStep, state
<1>16. ShapeInv(c)'
  <2>1. SaveOrder \in SaveTodos /\ c \in busy'
    BY <1>2, <1>14, ZenonT(90) DEF SaveTodos
  <2> QED
    BY <1>3, <1>9, <2>1 DEF ShapeInv
<1>17. HeldInv(c)'
  <2>1. state["meta"][1] \in 1..Len(idpOf)
    BY <1>3, <1>4, <1>11, Zenon DEF HeldInv, MadeBy
  <2>2. MadeBy(new, Len(idpOf'))
    BY <1>2, <1>4, <1>12, <2>1, ZenonT(90) DEF MadeBy
  <2> QED
    BY <1>3, <1>9, <1>12, <2>2 DEF HeldInv
<1>18. NewInv(c)'
  BY <1>3, <1>9 DEF NewInv, NewLogin
<1>19. ~raced' => ViewInv(c)'
  <2>1. ~raced' => store'["meta"] # None /\ store'["refresh"] # None
    BY <1>2, <1>3, <1>4, <1>11, ZenonT(90) DEF CmdInv, ViewInv
  <2>2. Left(SaveOrder) = Entries
    BY SaveWalk, Zenon DEF Walk, SaveTodos
  <2>3. live'[new["refresh"][1]] = new["refresh"][2]
    BY <1>6, <1>7, <1>8, ZenonT(90)
  <2> QED
    BY <1>3, <1>9, <2>1, <2>2, <2>3 DEF ViewInv
<1>20. ~raced' /\ ~torn' => WholeInv(c)'
  <2> SUFFICES ASSUME ~raced', ~torn'
               PROVE  WholeInv(c)'
    OBVIOUS
  <2>1. l = state["meta"][1]
    BY <1>2, LoadedWhole, Zenon
  <2>2. SameLogin(new)
    BY <1>12, <2>1, ZenonT(90) DEF SameLogin
  <2> QED
    BY <1>9, <2>2 DEF WholeInv
<1>21. StoreInv'
  <2>1. Refreshed(c)' /\ c \in busy'
    BY <1>2, <1>3, <1>9, <1>14, ZenonT(90) DEF Refreshed
  <2>2. ~raced' /\ ~torn' => SameLogin(store')
    BY <1>2, LoadedWhole, ZenonT(90)
  <2> QED
    BY <1>2, <1>3, <2>1, <2>2, ZenonT(90) DEF StoreInv, LogoutClears
<1> QED
  BY <1>9, <1>13, <1>15, <1>16, <1>17, <1>18, <1>19, <1>20, <1>21, StepKeeps, ZenonT(90) DEF CmdInv

(* Nothing anybody holds is of a login that has not been made.             *)
LEMMA NobodyHolds ==
    ASSUME TokenInv, NEW l \in Nat, l > Len(idpOf)
    PROVE  /\ \A e \in Entries : store[e][1] # l
           /\ \A d \in Cmds, e \in Entries : cmd[d].state[e][1] # l
<1>1. MadeBy(store, Len(idpOf)) /\ \A d \in Cmds : MadeBy(cmd[d].state, Len(idpOf))
  BY Zenon DEF TokenInv, StoreInv, CmdInv, HeldInv
<1>2. None[1] # l /\ l \notin 1..Len(idpOf)
  BY Typed, TokensAre
<1> QED
  BY <1>1, <1>2, Zenon DEF MadeBy

(* A login's tokens are new, so that nothing else in the system speaks of  *)
(* them.                                                                   *)
LEMMA ExchangeKeeps ==
    ASSUME TokenInv, NEW c \in Cmds, Exchange(c)
    PROVE  TokenInv'
<1> DEFINE n == Len(idpOf)
           l == n + 1
           new == [e \in Entries |-> IF e = "meta" THEN <<l, 0>> ELSE <<l, 1>>]
<1>1. /\ cmd[c].pc = "exchange" /\ l <= MaxLogins /\ idpOf' = Append(idpOf, cmd[c].idp)
      /\ grants' = [grants EXCEPT ![l] = 1] /\ live' = [live EXCEPT ![l] = 1]
      /\ fresh' = fresh \cup {<<l, 1>>}
      /\ GoOn(c, "save", new, SaveOrder, {})
      /\ UNCHANGED <<store, profile, busy, raced, torn, lost, gone>>
  BY Zenon DEF Exchange
<1>2. /\ CmdInv(c) /\ StoreInv /\ ShapeInv(c) /\ cmd[c].role = "login"
      /\ n \in Nat /\ cmd[c].idp \in IdPs /\ idpOf \in Seq(IdPs)
  BY <1>1, Typed, ZenonT(90) DEF TokenInv, CmdInv, ShapeInv
<1>3. /\ idpOf' \in Seq(IdPs) /\ Len(idpOf') = l /\ l \in Nat /\ l \in 1..MaxLogins
      /\ n <= Len(idpOf') /\ \A k \in 1..n : idpOf'[k] = idpOf[k] /\ k \in 1..MaxLogins
      /\ l \in 1..Len(idpOf') /\ l \notin 1..n /\ l > n
  <2> HIDE DEF IdPs
  <2> QED
    BY <1>1, <1>2, TokenStoreAssumption
<1>4. /\ <<l, 0>> \in Tokens /\ <<l, 1>> \in Tokens /\ <<l, 0>> # None /\ <<l, 1>> # None
      /\ <<l, 0>>[1] = l /\ <<l, 1>>[1] = l /\ <<l, 1>>[2] = 1 /\ 1 \in 0..MaxGrants
  <2>1. 0 \in 0..MaxGrants /\ 1 \in 0..MaxGrants
    BY TokenStoreAssumption
  <2> HIDE DEF l
  <2> QED
    BY <1>3, <2>1, TokensAre
<1>5. new \in States /\ \A e \in Entries : new[e] # None /\ new[e][1] = l
  BY <1>4, Zenon DEF States
<1>6. new["refresh"] = <<l, 1>>
  BY DEF Entries
<1>7. /\ live' \in [1..MaxLogins -> 0..MaxGrants] /\ grants' \in [1..MaxLogins -> 0..MaxGrants]
      /\ live'[l] = 1 /\ \A k \in 1..n : live'[k] = live[k]
  <2>1. live \in [1..MaxLogins -> 0..MaxGrants] /\ grants \in [1..MaxLogins -> 0..MaxGrants]
    BY Typed, Zenon
  <2>2. \A k \in 1..n : k # l
    BY <1>2
  <2> HIDE DEF l, n
  <2> QED
    BY <1>1, <1>3, <1>4, <2>1, <2>2
<1> HIDE DEF new, n, l
<1>8. /\ cmd' \in [Cmds -> Records] /\ cmd'[c].pc = "save" /\ cmd'[c].role = "login"
      /\ cmd'[c].state = new /\ cmd'[c].todo = SaveOrder
      /\ \A d \in Cmds \ {c} : cmd'[d] = cmd[d]
  <2>1. "save" \in Labels
    BY DEF Labels
  <2>2. SaveOrder \in Seq(SUBSET Entries)
    BY SaveWalk, Zenon DEF Walk, SaveTodos
  <2>3. GoesOn(c, "save", new, SaveOrder, {})
    BY <1>1, <1>5, <2>1, <2>2, Typed, Zenon DEF GoesOn
  <2>4. WentOn(c, "save", new, SaveOrder, {})
    BY <2>3, GoOnIs, Zenon
  <2> QED
    BY <1>2, <2>4, Zenon DEF WentOn
<1>9. TypeOK'
  <2>1. fresh' \subseteq Tokens /\ Len(idpOf') <= MaxLogins
    BY <1>1, <1>3, <1>4, Typed, Zenon
  <2> QED
    BY <1>1, <1>3, <1>7, <1>8, <2>1, Typed, TypeNext, ZenonT(90)
<1>10. OthersStep(c)
  BY <1>1, <1>2, <1>3, <1>5, <1>7, <1>8, ZenonT(90) DEF OthersStep, n
<1>11. ~Touching(c)' /\ ~Refreshed(c)' /\ NewLogin(c)'
  BY <1>8 DEF Touching, Using, Writing, Refreshed, NewLogin
<1>12. Left(SaveOrder) = Entries /\ SaveOrder \in SaveTodos
  BY SaveWalk, ZenonT(90) DEF Walk, SaveTodos
<1>13. ShapeInv(c)'
  BY <1>8, <1>11, <1>12 DEF ShapeInv
<1>14. HeldInv(c)' /\ SameLogin(new)
  <2>1. SameLogin(new) /\ MadeBy(new, Len(idpOf'))
    BY <1>3, <1>5, Zenon DEF SameLogin, MadeBy
  <2> QED
    BY <1>5, <1>8, <2>1 DEF HeldInv
<1>15. NewInv(c)'
  <2>1. /\ \A e \in Entries : store'[e][1] # l
        /\ \A d \in Cmds \ {c}, e \in Entries : cmd'[d].state[e][1] # l
    BY <1>1, <1>3, <1>8, NobodyHolds, ZenonT(90) DEF n
  <2>2. cmd'[c].state["refresh"][1] = l /\ cmd'[c].state["refresh"][2] = 1
    BY <1>4, <1>6, <1>8, Zenon
  <2> QED
    BY <1>7, <2>1, <2>2, Zenon DEF NewInv
<1>16. ViewInv(c)' /\ WholeInv(c)'
  BY <1>8, <1>11, <1>12, <1>14 DEF ViewInv, WholeInv
<1>17. StoreInv'
  <2>1. ~Writing(c) /\ ~Refreshed(c)
    BY <1>1 DEF Writing, Refreshed
  <2>2. \A d \in busy : (Writing(d) => Writing(d)') /\ (Refreshed(d) => Refreshed(d)')
    BY <1>8, <2>1, Typed, ZenonT(90) DEF Writing, Refreshed
  <2>3. ~raced' => \A b, d \in busy' : b = d
    BY <1>1, <1>2, ZenonT(90) DEF StoreInv
  <2>4. store["refresh"] # None => live'[store["refresh"][1]] = live[store["refresh"][1]]
    <3>1. "refresh" \in Entries
      BY DEF Entries
    <3> QED
      BY <1>2, <1>7, <3>1, Zenon DEF StoreInv, MadeBy, n
  <2>5. Len(idpOf) \in Nat /\ Len(idpOf') \in Nat /\ Len(idpOf) <= Len(idpOf')
    BY <1>2, <1>3, Zenon DEF n
  <2> QED
    BY <1>1, <1>2, <2>2, <2>3, <2>4, <2>5, StoreStays, ZenonT(90)
<1> QED
  BY <1>8, <1>9, <1>10, <1>13, <1>14, <1>15, <1>16, <1>17, StepKeeps, ZenonT(90) DEF CmdInv

(* A write moves the store to what the command holds, entry by entry, the  *)
(* refresh token first.                                                    *)
LEMMA SaveKeeps ==
    ASSUME TokenInv, NEW c \in Cmds, Save(c)
    PROVE  TokenInv'
<1> DEFINE todo == cmd[c].todo
           state == cmd[c].state
<1>1. /\ cmd[c].pc = "save" /\ raced' = (raced \/ busy \ {c} # {})
      /\ store' = [e \in Entries |-> IF e \in Head(todo) THEN state[e] ELSE store[e]]
      /\ gone' = gone \ Restored(cmd[c].role, Head(todo))
      /\ UNCHANGED <<profile, idpOf, grants, live, fresh, torn, lost>>
      /\ IF Len(todo) = 1
         THEN Exit(c)
         ELSE GoOn(c, "save", state, Tail(todo), {}) /\ busy' = busy \cup {c}
  BY Zenon DEF Save, idp
<1>2. /\ CmdInv(c) /\ StoreInv /\ ShapeInv(c) /\ HeldInv(c) /\ NewInv(c) /\ todo \in SaveTodos
      /\ cmd[c].role \in {"use", "login"} /\ store \in States /\ state \in States
      /\ Len(idpOf) \in Nat
  BY <1>1, Typed, Zenon DEF TokenInv, CmdInv, ShapeInv
<1>3. /\ Tail(todo) \in Seq(SUBSET Entries) /\ Head(todo) \subseteq Left(todo)
      /\ Left(todo) \subseteq Entries
      /\ Len(todo) = 1 => Left(todo) = Head(todo)
      /\ Len(todo) # 1 => /\ Tail(todo) \in SaveTodos \ {SaveOrder}
                          /\ Left(Tail(todo)) = Left(todo) \ Head(todo)
      /\ todo = SaveOrder => "refresh" \in Head(todo)
      /\ todo # SaveOrder => "refresh" \notin Left(todo)
  BY <1>2, SaveWalk, Zenon DEF Walk
<1>4. \A e \in Entries : /\ e \in Head(todo) => store'[e] = state[e]
                         /\ e \notin Head(todo) => store'[e] = store[e]
  BY <1>1, Zenon
<1>5. store' \in States /\ {raced', torn', lost'} \subseteq BOOLEAN /\ gone' \subseteq Entries
  BY <1>1, <1>2, Typed, ZenonT(90) DEF States
<1>6. ~raced' => ~raced /\ ViewInv(c) /\ (~torn => WholeInv(c)) /\ \A d \in busy : d = c
  BY <1>1, <1>2, AccessIs, ZenonT(90) DEF CmdInv
<1>7. /\ cmd' \in [Cmds -> Records] /\ \A d \in Cmds \ {c} : cmd'[d] = cmd[d]
      /\ \/ /\ Len(todo) = 1 /\ cmd'[c].pc = "exit" /\ cmd'[c].state = NoState
            /\ busy' = busy \ {c}
         \/ /\ Len(todo) # 1 /\ cmd'[c].pc = "save" /\ cmd'[c].role = cmd[c].role
            /\ cmd'[c].state = state /\ cmd'[c].todo = Tail(todo) /\ busy' = busy \cup {c}
  <2>1. CASE Len(todo) = 1
    BY <1>1, <2>1, Typed, ExitIs
  <2>2. CASE Len(todo) # 1
    <3>1. "save" \in Labels
      BY DEF Labels
    <3>2. GoesOn(c, "save", state, Tail(todo), {})
      BY <1>1, <1>2, <1>3, <2>2, <3>1, Typed, Zenon DEF GoesOn
    <3>3. WentOn(c, "save", state, Tail(todo), {})
      BY <3>2, GoOnIs, Zenon
    <3> QED
      BY <1>1, <2>2, <3>3, Zenon DEF WentOn
  <2> QED
    BY <2>1, <2>2
<1> HIDE DEF state, todo
<1>8. TypeOK'
  <2>1. busy' \subseteq Cmds
    BY <1>7, Typed, Zenon
  <2> QED
    BY <1>1, <1>5, <1>7, <2>1, Typed, TypeNext, ZenonT(90)
<1>9. OthersStep(c)
  <2>1. Len(idpOf) <= Len(idpOf')
    BY <1>1, <1>2
  <2>2. \A e \in Entries : NoState[e][1] = 0
    BY <1>2, NothingHeld, Zenon
  <2>3. \A e \in Entries : store'[e][1] = store[e][1] \/ store'[e][1] = state[e][1]
    BY <1>4, Zenon
  <2>4. busy \ {c} \subseteq busy' /\ (~raced' => busy \subseteq {c})
    BY <1>1, <1>7, AccessIs, Zenon
  <2>5. \A e \in Entries : \/ cmd'[c].state[e][1] = 0
                           \/ cmd'[c].state[e][1] = state[e][1]
    BY <1>7, <2>2, Zenon
  <2> QED
    BY <1>1, <1>2, <1>7, <2>1, <2>3, <2>4, <2>5, AccessIs, ZenonT(90) DEF OthersStep, state
<1>10. \A e \in Entries : state[e] # None
  BY <1>1, <1>2, Zenon DEF HeldInv, state
<1>11. ~raced' => \A e \in Entries \ (Left(todo) \ Head(todo)) : store'[e] = state[e]
  BY <1>1, <1>4, <1>6, Zenon DEF ViewInv, state, todo
<1>12. "refresh" \in Entries /\ "meta" \in Entries
  BY DEF Entries
<1>13. CmdInv(c)'
  <2>1. CASE cmd'[c].pc = "exit" /\ cmd'[c].state = NoState
    <3>1. Len(idpOf') \in Nat
      BY <1>1, <1>2
    <3> QED
      BY <2>1, <3>1, RestingKeeps
  <2>2. CASE /\ Len(todo) # 1 /\ cmd'[c].pc = "save" /\ cmd'[c].role = cmd[c].role
             /\ cmd'[c].state = state /\ cmd'[c].todo = Tail(todo) /\ busy' = busy \cup {c}
    <3>1. /\ Tail(todo) \in SaveTodos /\ Tail(todo) # SaveOrder
          /\ Left(Tail(todo)) = Left(todo) \ Head(todo) /\ c \in busy'
      BY <1>3, <2>2, Zenon
    <3>2. ~Refreshed(c)' /\ ~NewLogin(c)'
      BY <2>2, <3>1, ZenonT(90) DEF Refreshed, NewLogin
    <3>3. ShapeInv(c)'
      BY <1>2, <2>2, <3>1 DEF ShapeInv
    <3>4. HeldInv(c)'
      <4>1. MadeBy(state, Len(idpOf')) /\ (cmd[c].role = "login" => SameLogin(state))
        BY <1>1, <1>2, ZenonT(90) DEF HeldInv, state
      <4> QED
        BY <1>10, <2>2, <4>1 DEF HeldInv
    <3>5. ~raced' => ViewInv(c)'
      <4>1. ~raced' /\ cmd[c].role = "use" => store'["meta"] # None /\ store'["refresh"] # None
        BY <1>1, <1>4, <1>6, <1>10, <1>12, ZenonT(90) DEF ViewInv
      <4> QED
        BY <1>11, <2>2, <3>1, <3>2, <4>1 DEF ViewInv
    <3>6. ~raced' /\ ~torn' => WholeInv(c)'
      <4>1. ~raced' /\ ~torn' => SameLogin(state)
        BY <1>1, <1>6, ZenonT(90) DEF WholeInv, state
      <4> QED
        BY <2>2, <4>1 DEF WholeInv
    <3> QED
      BY <3>2, <3>3, <3>4, <3>5, <3>6, ZenonT(90) DEF CmdInv, NewInv
  <2> QED
    BY <1>7, <2>1, <2>2, ZenonT(90)
<1>14. ~raced' /\ ~lost' => store'["refresh"] = None \/ live'[store'["refresh"][1]] = store'["refresh"][2]
  <2> SUFFICES ASSUME ~raced', ~lost'
               PROVE  store'["refresh"] = None \/ live'[store'["refresh"][1]] = store'["refresh"][2]
    OBVIOUS
  <2>1. CASE todo = SaveOrder
    <3>1. NewLogin(c) \/ Refreshed(c)
      BY <1>1, <1>2, <2>1, Zenon DEF NewLogin, Refreshed, todo
    <3>2. live[state["refresh"][1]] = state["refresh"][2]
      BY <1>2, <1>6, <3>1, Zenon DEF NewInv, ViewInv, state
    <3> QED
      BY <1>1, <1>3, <1>4, <1>12, <2>1, <3>2, ZenonT(90)
  <2>2. CASE todo # SaveOrder
    <3>1. store'["refresh"] = store["refresh"]
      BY <1>3, <1>4, <1>12, <2>2, Zenon
    <3>2. \A d \in busy : ~Refreshed(d)
      BY <1>6, <2>2, Zenon DEF Refreshed, todo
    <3> QED
      BY <1>1, <1>2, <1>6, <3>1, <3>2, Zenon DEF StoreInv
  <2> QED
    BY <2>1, <2>2
<1>15. LogoutClears'
  <2> SUFFICES ASSUME ~raced', NEW e \in gone'
               PROVE  store'[e] = None
    BY Zenon DEF LogoutClears
  <2>1. e \in gone /\ e \in Entries /\ store[e] = None /\ e \notin Restored(cmd[c].role, Head(todo))
    BY <1>1, <1>2, <1>6, Typed, Zenon DEF StoreInv, LogoutClears
  <2>2. CASE cmd[c].role = "login"
    BY <2>1, <2>2, Zenon DEF Restored
  <2>3. CASE cmd[c].role = "use"
    <3>1. "meta" \notin gone /\ "refresh" \notin gone
      BY <1>1, <1>2, <1>6, <2>3, Zenon DEF ViewInv, StoreInv, LogoutClears
    <3>2. gone \subseteq {"access"} /\ "use" # "login"
      BY <3>1, Typed, EntriesAre, Zenon
    <3>3. e \notin Head(todo)
      BY <2>1, <2>3, <3>2, Zenon DEF Restored
    <3> QED
      BY <1>4, <2>1, <3>3, Zenon
  <2> QED
    BY <1>2, <2>2, <2>3, Zenon
<1>16. ~raced' /\ ~torn' => SameLogin(store') \/ \E d \in busy' : Writing(d)'
  <2> SUFFICES ASSUME ~raced', ~torn'
               PROVE  SameLogin(store') \/ \E d \in busy' : Writing(d)'
    OBVIOUS
  <2>1. CASE Len(todo) = 1
    <3>1. \A e \in Entries : store'[e] = state[e]
      BY <1>3, <1>11, <2>1, Zenon
    <3>2. SameLogin(state)
      BY <1>1, <1>6, Zenon DEF WholeInv, state
    <3>3. \A e \in Entries : (store'[e] = None <=> state[e] = None) /\ store'[e][1] = state[e][1]
      BY <3>1, Zenon
    <3> QED
      BY <3>2, <3>3, ZenonT(90) DEF SameLogin
  <2>2. CASE Len(todo) # 1
    <3>1. cmd'[c].pc = "save" /\ cmd'[c].todo # SaveOrder /\ c \in busy'
      BY <1>3, <1>7, <2>2, Zenon
    <3> QED
      BY <3>1, Zenon DEF Writing
  <2> QED
    BY <2>1, <2>2
<1>17. StoreInv'
  <2>1. MadeBy(store', Len(idpOf'))
    BY <1>1, <1>2, <1>4, Zenon DEF StoreInv, HeldInv, MadeBy, state
  <2>2. ~raced' => \A b, d \in busy' : b = d
    BY <1>6, <1>7, Zenon
  <2> QED
    BY <1>14, <1>15, <1>16, <2>1, <2>2, Zenon DEF StoreInv
<1> QED
  BY <1>7, <1>8, <1>9, <1>13, <1>17, StepKeeps, ZenonT(90)

(* A command that goes on deleting, whatever became of the entries.        *)
LEMMA DeletingKeeps ==
    ASSUME TokenInv, NEW c \in Cmds, cmd[c].pc = "delete", cmd'[c].pc = "delete",
           cmd'[c].state = cmd[c].state, cmd'[c].todo \in DeleteTodos, c \in busy',
           Len(idpOf') = Len(idpOf),
           ~raced' => \A e \in Entries \ (Left(cmd'[c].todo) \cup cmd'[c].deleteErrors) : store'[e] = None
    PROVE  CmdInv(c)'
<1>1. ShapeInv(c)'
  BY DEF ShapeInv
<1>2. MadeBy(cmd'[c].state, Len(idpOf'))
  BY ZenonT(90) DEF TokenInv, CmdInv, HeldInv
<1>3. HeldInv(c)' /\ NewInv(c)' /\ WholeInv(c)' /\ (~raced' => ViewInv(c)')
  BY <1>2 DEF HeldInv, NewInv, NewLogin, WholeInv, ViewInv, Refreshed
<1> QED
  BY <1>1, <1>3, ZenonT(90) DEF CmdInv

(* A logout removes the entries one by one; those whose removal did not    *)
(* fail are gone when it returns.                                          *)
LEMMA DeleteKeeps ==
    ASSUME TokenInv, NEW c \in Cmds, Delete(c)
    PROVE  TokenInv'
<1> DEFINE todo == cmd[c].todo
           state == cmd[c].state
<1>1. /\ cmd[c].pc = "delete" /\ raced' = (raced \/ busy \ {c} # {})
      /\ store' = [e \in Entries |-> IF e \in Head(todo) THEN None ELSE store[e]]
      /\ UNCHANGED <<profile, idpOf, grants, live, fresh, torn, lost>>
      /\ IF Len(todo) = 1
         THEN Exit(c) /\ gone' = gone \cup (Entries \ cmd[c].deleteErrors)
         ELSE /\ GoOn(c, "delete", state, Tail(todo), cmd[c].deleteErrors)
              /\ busy' = busy \cup {c} /\ UNCHANGED gone
  BY Zenon DEF Delete, idp
<1>2. /\ CmdInv(c) /\ StoreInv /\ ShapeInv(c) /\ HeldInv(c) /\ todo \in DeleteTodos
      /\ store \in States /\ state \in States /\ Len(idpOf) \in Nat /\ cmd[c].deleteErrors \subseteq Entries
  BY <1>1, Typed, Zenon DEF TokenInv, CmdInv, ShapeInv
<1>3. /\ Tail(todo) \in Seq(SUBSET Entries) /\ Head(todo) \subseteq Left(todo)
      /\ Left(todo) \subseteq Entries
      /\ Len(todo) = 1 => Left(todo) = Head(todo)
      /\ Len(todo) # 1 => /\ Tail(todo) \in DeleteTodos \ {DeleteOrder}
                          /\ Left(Tail(todo)) = Left(todo) \ Head(todo)
  BY <1>2, DeleteWalk, Zenon DEF Walk
<1>4. \A e \in Entries : /\ e \in Head(todo) => store'[e] = None
                         /\ e \notin Head(todo) => store'[e] = store[e]
  BY <1>1, Zenon
<1>5. store' \in States /\ {raced', torn', lost'} \subseteq BOOLEAN /\ gone' \subseteq Entries
  BY <1>1, <1>2, Typed, ZenonT(90) DEF States
<1>6. ~raced' => ~raced /\ ViewInv(c) /\ \A d \in busy : d = c /\ ~Writing(d) /\ ~Refreshed(d)
  <2>1. ~Writing(c) /\ ~Refreshed(c)
    BY <1>1 DEF Writing, Refreshed
  <2> QED
    BY <1>1, <1>2, <2>1, AccessIs, ZenonT(90) DEF CmdInv
<1>7. /\ cmd' \in [Cmds -> Records] /\ \A d \in Cmds \ {c} : cmd'[d] = cmd[d]
      /\ \/ /\ Len(todo) = 1 /\ cmd'[c].pc = "exit" /\ cmd'[c].state = NoState
            /\ busy' = busy \ {c}
         \/ /\ Len(todo) # 1 /\ cmd'[c].pc = "delete" /\ cmd'[c].deleteErrors = cmd[c].deleteErrors
            /\ cmd'[c].state = state /\ cmd'[c].todo = Tail(todo) /\ busy' = busy \cup {c}
  <2>1. CASE Len(todo) = 1
    BY <1>1, <2>1, Typed, ExitIs
  <2>2. CASE Len(todo) # 1
    <3>1. "delete" \in Labels
      BY DEF Labels
    <3>2. GoesOn(c, "delete", state, Tail(todo), cmd[c].deleteErrors)
      BY <1>1, <1>2, <1>3, <2>2, <3>1, Typed, ZenonT(90) DEF GoesOn
    <3>3. WentOn(c, "delete", state, Tail(todo), cmd[c].deleteErrors)
      BY <3>2, GoOnIs, Zenon
    <3> QED
      BY <1>1, <2>2, <3>3, ZenonT(90) DEF WentOn
  <2> QED
    BY <2>1, <2>2
<1> HIDE DEF state, todo
<1>8. TypeOK'
  <2>1. busy' \subseteq Cmds
    BY <1>7, Typed, Zenon
  <2> QED
    BY <1>1, <1>5, <1>7, <2>1, Typed, TypeNext, ZenonT(90)
<1>9. OthersStep(c)
  <2>1. Len(idpOf) <= Len(idpOf') /\ None[1] = 0
    BY <1>1, <1>2, TokensAre
  <2>2. \A e \in Entries : NoState[e][1] = 0
    BY <1>2, NothingHeld, Zenon
  <2>3. \A e \in Entries : store'[e][1] = store[e][1] \/ store'[e][1] = 0
    BY <1>4, <2>1, Zenon
  <2>4. busy \ {c} \subseteq busy' /\ (~raced' => busy \subseteq {c})
    BY <1>1, <1>7, AccessIs, Zenon
  <2>5. \A e \in Entries : \/ cmd'[c].state[e][1] = 0
                           \/ cmd'[c].state[e][1] = state[e][1]
    BY <1>7, <2>2, Zenon
  <2> QED
    BY <1>1, <1>2, <1>7, <2>1, <2>3, <2>4, <2>5, AccessIs, ZenonT(90) DEF OthersStep, state
<1>10. ~raced' => \A e \in Entries \ ((Left(todo) \ Head(todo)) \cup cmd[c].deleteErrors) : store'[e] = None
  BY <1>1, <1>4, <1>6, Zenon DEF ViewInv, todo
<1>11. CmdInv(c)'
  <2>1. CASE cmd'[c].pc = "exit" /\ cmd'[c].state = NoState
    <3>1. Len(idpOf') \in Nat
      BY <1>1, <1>2
    <3> QED
      BY <2>1, <3>1, RestingKeeps
  <2>2. CASE /\ Len(todo) # 1 /\ cmd'[c].pc = "delete" /\ cmd'[c].deleteErrors = cmd[c].deleteErrors
             /\ cmd'[c].state = state /\ cmd'[c].todo = Tail(todo) /\ busy' = busy \cup {c}
    <3>1. /\ Tail(todo) \in DeleteTodos /\ Left(Tail(todo)) = Left(todo) \ Head(todo)
          /\ c \in busy'
      BY <1>3, <2>2, Zenon
    <3>2. ~raced' => \A e \in Entries \ (Left(cmd'[c].todo) \cup cmd'[c].deleteErrors) : store'[e] = None
      BY <1>10, <2>2, <3>1, ZenonT(90)
    <3> QED
      BY <1>1, <2>2, <3>1, <3>2, DeletingKeeps, ZenonT(90) DEF state
  <2> QED
    BY <1>7, <2>1, <2>2, ZenonT(90)
<1>12. LogoutClears'
  <2> SUFFICES ASSUME ~raced', NEW e \in gone'
               PROVE  store'[e] = None
    BY Zenon DEF LogoutClears
  <2>1. CASE e \in gone
    BY <1>2, <1>4, <1>6, <2>1, Typed, ZenonT(90) DEF StoreInv, LogoutClears
  <2>2. CASE Len(todo) = 1 /\ e \in Entries \ cmd[c].deleteErrors
    BY <1>3, <1>10, <2>2, Zenon
  <2> QED
    BY <1>1, <2>1, <2>2, Zenon DEF todo
<1>13. StoreInv'
  <2>1. MadeBy(store', Len(idpOf'))
    BY <1>1, <1>2, <1>4, Zenon DEF StoreInv, MadeBy
  <2>2. ~raced' => \A b, d \in busy' : b = d
    BY <1>6, <1>7, Zenon
  <2>3. \A e \in Entries : store'[e] = None \/ (store'[e] = store[e] /\ store'[e][1] = store[e][1])
    BY <1>4, ZenonT(90)
  <2>4. ~raced' /\ ~torn' => SameLogin(store')
    <3>1. ~raced' /\ ~torn' => SameLogin(store)
      BY <1>1, <1>2, <1>6, Zenon DEF StoreInv
    <3> QED
      BY <2>3, <3>1 DEF SameLogin
  <2>5. ~raced' /\ ~lost' =>
          store'["refresh"] = None \/ live'[store'["refresh"][1]] = store'["refresh"][2]
    <3>1. "refresh" \in Entries
      BY DEF Entries
    <3> QED
      BY <1>1, <1>2, <1>6, <2>3, <3>1, ZenonT(90) DEF StoreInv
  <2> QED
    BY <1>12, <2>1, <2>2, <2>4, <2>5, ZenonT(90) DEF StoreInv
<1> QED
  BY <1>7, <1>8, <1>9, <1>11, <1>13, StepKeeps, Zenon

(* A failed access changes no entry, and a logout remembers it.            *)
LEMMA StoreFailsKeeps ==
    ASSUME TokenInv, NEW c \in Cmds, StoreFails(c)
    PROVE  TokenInv'
<1> DEFINE todo == cmd[c].todo
           state == cmd[c].state
           errors == cmd[c].deleteErrors \cup Head(todo)
<1>1. /\ raced' = (raced \/ busy \ {c} # {})
      /\ torn' = (torn \/ (cmd[c].pc = "save" /\ todo # SaveOrder))
      /\ lost' = (lost \/ (cmd[c].pc = "save" /\ todo = SaveOrder))
      /\ gone' = IF cmd[c].pc = "delete" /\ Len(todo) = 1 THEN gone \cup (Entries \ errors) ELSE gone
      /\ UNCHANGED <<store, profile, idp>> /\ UNCHANGED <<idpOf, grants, live, fresh>>
  BY Zenon DEF StoreFails, idp
<1>2. {raced', torn', lost'} \subseteq BOOLEAN
  BY <1>1, AccessIs, Typed, Zenon
<1>3. CASE Exit(c)
  <2>1. (Writing(c) => torn') /\ (Refreshed(c) => lost')
    BY <1>1, Zenon DEF Writing, Refreshed
  <2>2. ASSUME cmd[c].pc = "delete", Len(todo) = 1
        PROVE  gone' \subseteq Entries /\ LogoutClears'
    <3>1. Head(todo) = Left(todo)
      BY <2>2, DeleteWalk, Zenon DEF TokenInv, CmdInv, ShapeInv, Walk
    <3>2. gone' = gone \cup (Entries \ errors) /\ gone \subseteq Entries
      BY <1>1, <2>2, Typed, Zenon
    <3>3. ~raced' => \A e \in Entries \ errors : store[e] = None
      BY <1>1, <2>2, <3>1, AccessIs, ZenonT(90) DEF TokenInv, CmdInv, ViewInv
    <3>4. ~raced' => \A e \in gone : store[e] = None
      BY <1>1, AccessIs, Zenon DEF TokenInv, StoreInv, LogoutClears
    <3> HIDE DEF errors
    <3> QED
      BY <1>1, <3>2, <3>3, <3>4, Zenon DEF LogoutClears
  <2>3. UNCHANGED gone \/ (gone' \subseteq Entries /\ LogoutClears')
    BY <1>1, <2>2, Zenon
  <2> QED
    BY <1>1, <1>2, <1>3, <2>1, <2>3, AccessIs, ExitKeeps, ZenonT(90)
<1>4. CASE /\ cmd[c].pc = "delete" /\ Len(todo) > 1
           /\ GoOn(c, "delete", state, Tail(todo), errors) /\ busy' = busy \cup {c}
  <2>1. /\ StoreInv /\ todo \in DeleteTodos /\ state \in States /\ Len(idpOf) \in Nat
    BY <1>4, Typed, Zenon DEF TokenInv, CmdInv, ShapeInv
  <2>2. Len(todo) # 1 /\ Len(todo) \in {1, 2, 3}
    <3>1. Len(todo) \in {1, 2, 3} /\ Len(todo) > 1
      BY <1>4, <2>1, DeleteWalk, Zenon DEF Walk
    <3> DEFINE n == Len(todo)
    <3>2. n \in {1, 2, 3} /\ n > 1
      BY <3>1, Zenon
    <3> HIDE DEF n
    <3>3. n # 1 /\ n \in {1, 2, 3}
      BY <3>2
    <3> QED
      BY <3>3, Zenon DEF n
  <2>3. /\ Tail(todo) \in Seq(SUBSET Entries) /\ Tail(todo) \in DeleteTodos
        /\ Left(Tail(todo)) = Left(todo) \ Head(todo) /\ errors \subseteq Entries
        /\ UNCHANGED gone
    <3>1. /\ Tail(todo) \in Seq(SUBSET Entries) /\ Tail(todo) \in DeleteTodos
          /\ Left(Tail(todo)) = Left(todo) \ Head(todo)
          /\ Head(todo) \subseteq Left(todo) /\ Left(todo) \subseteq Entries
      BY <2>1, <2>2, DeleteWalk, Zenon DEF Walk
    <3>2. errors \subseteq Entries
      BY <3>1, Typed, Zenon
    <3> QED
      BY <1>1, <2>2, <3>1, <3>2, Zenon
  <2>4. /\ cmd' \in [Cmds -> Records] /\ \A d \in Cmds \ {c} : cmd'[d] = cmd[d]
        /\ cmd'[c].pc = "delete" /\ cmd'[c].deleteErrors = errors
        /\ cmd'[c].state = state /\ cmd'[c].todo = Tail(todo)
    <3>1. "delete" \in Labels
      BY DEF Labels
    <3>2. GoesOn(c, "delete", state, Tail(todo), errors)
      BY <1>4, <2>1, <2>3, <3>1, Typed, Zenon DEF GoesOn
    <3>3. WentOn(c, "delete", state, Tail(todo), errors)
      BY <3>2, GoOnIs, Zenon
    <3> QED
      BY <3>3, Zenon DEF WentOn
  <2>5. TypeOK'
    <3>1. {raced', torn', lost'} \subseteq BOOLEAN /\ gone' \subseteq Entries /\ busy' \subseteq Cmds
      BY <1>1, <1>2, <1>4, <2>3, Typed, Zenon
    <3> QED
      BY <1>1, <2>4, <3>1, Typed, TypeNext, Zenon
  <2>6. CmdInv(c)'
    <3>1. /\ Len(idpOf') = Len(idpOf) /\ c \in busy' /\ cmd[c].pc = "delete"
          /\ cmd'[c].pc = "delete" /\ cmd'[c].state = cmd[c].state /\ cmd'[c].todo \in DeleteTodos
      BY <1>1, <1>4, <2>3, <2>4, ZenonT(90)
    <3>2. ~raced' => \A e \in Entries \ (Left(todo) \cup cmd[c].deleteErrors) : store[e] = None
      BY <1>1, <1>4, AccessIs, ZenonT(90) DEF TokenInv, CmdInv, ViewInv
    <3>3. ~raced' => \A e \in Entries \ (Left(Tail(todo)) \cup errors) : store'[e] = None
      BY <1>1, <2>3, <3>2, ZenonT(90)
    <3>4. ~raced' => \A e \in Entries \ (Left(cmd'[c].todo) \cup cmd'[c].deleteErrors) : store'[e] = None
      BY <2>4, <3>3, Zenon
    <3> QED
      BY <3>1, <3>4, DeletingKeeps, Zenon
  <2>7. Len(idpOf) <= Len(idpOf')
    BY <1>1, <2>1
  <2>8. OthersStep(c)
    BY <1>1, <1>4, <2>1, <2>4, <2>7, AccessIs, ZenonT(90) DEF OthersStep
  <2>9. StoreInv'
    <3>1. ~raced' => busy \subseteq {c} /\ \A b, d \in busy' : b = d
      BY <1>1, <1>4, AccessIs, ZenonT(90)
    <3>2. ~raced' => \A d \in busy : ~Writing(d) /\ ~Refreshed(d)
      BY <1>4, <3>1 DEF Writing, Refreshed
    <3> QED
      BY <1>1, <2>1, <2>3, <2>7, <3>1, <3>2, AccessIs, StoreStays, ZenonT(90)
  <2> QED
    BY <2>4, <2>5, <2>6, <2>8, <2>9, StepKeeps, ZenonT(90)
<1> QED
  BY <1>3, <1>4, Zenon DEF StoreFails

(* The engineer's edit, an access token's expiry and a stuttering step     *)
(* touch no command and no entry.                                          *)
LEMMA QuietKeeps ==
    ASSUME TokenInv, EditProfile \/ Expire \/ UNCHANGED vars
    PROVE  TokenInv'
<1>1. UNCHANGED <<store, idpOf, grants, live, cmd, busy, raced, torn, lost, gone>>
  BY Zenon DEF EditProfile, Expire, vars, idp
<1>2. profile' \in IdPs /\ fresh' \subseteq Tokens
  BY Typed, Zenon DEF EditProfile, Expire, vars, idp
<1>3. TypeOK'
  BY <1>1, <1>2, Typed, TypeNext, Zenon
<1>4. StoreInv'
  BY <1>1, Zenon DEF TokenInv, StoreInv, LogoutClears, Writing, Refreshed
<1>5. ASSUME NEW c \in Cmds
      PROVE  CmdInv(c)'
  <2>1. CmdInv(c)
    BY Zenon DEF TokenInv
  <2>2. ShapeInv(c)'
    BY <1>1, <2>1, Zenon DEF CmdInv, ShapeInv, Touching, Using, Writing
  <2>3. HeldInv(c)' /\ NewInv(c)'
    BY <1>1, <2>1, Zenon DEF CmdInv, HeldInv, NewInv, NewLogin
  <2>4. (~raced' => ViewInv(c)') /\ (~raced' /\ ~torn' => WholeInv(c)')
    BY <1>1, <2>1, ZenonT(90) DEF CmdInv, ViewInv, Refreshed, WholeInv
  <2> QED
    BY <2>2, <2>3, <2>4, Zenon DEF CmdInv
<1> QED
  BY <1>1, <1>3, <1>4, <1>5, Zenon DEF TokenInv

(* Nothing is stored and no command runs.                                  *)
LEMMA TokenInit ==
    ASSUME Init
    PROVE  TokenInv
<1>1. /\ store = NoState /\ profile = "A" /\ idpOf = <<>> /\ fresh = {} /\ busy = {}
      /\ raced = FALSE /\ torn = FALSE /\ lost = FALSE /\ gone = {}
      /\ cmd = [c \in Cmds |-> Resting("idle")]
  BY Zenon DEF Init
<1>2. cmd \in [Cmds -> Records] /\ \A c \in Cmds : cmd[c].pc = "idle" /\ cmd[c].state = NoState
  <2>1. "idle" \in Labels /\ "use" \in Roles /\ "A" \in IdPs /\ NoState \in States
    BY NoStateIs DEF Labels, Roles, IdPs
  <2> HIDE DEF Labels, Entries, Tokens, None, Roles, IdPs, States, NoState
  <2> DEFINE T == Seq(SUBSET Entries) r == Resting("idle")
  <2>2. <<>> \in T
    OBVIOUS
  <2>3. Records = [pc : Labels, role : Roles, idp : IdPs, state : States, todo : T, deleteErrors : SUBSET Entries]
    BY ZenonT(90) DEF Records, States
  <2> HIDE DEF T
  <2>4. r \in Records /\ r.pc = "idle" /\ r.state = NoState
    BY <2>1, <2>2, <2>3 DEF Resting
  <2> HIDE DEF r
  <2>5. cmd = [c \in Cmds |-> r]
    BY <1>1, Zenon DEF r
  <2> QED
    BY <2>4, <2>5
<1>3. /\ grants \in [1..MaxLogins -> 0..MaxGrants] /\ live \in [1..MaxLogins -> 0..MaxGrants]
      /\ idpOf \in Seq(IdPs) /\ Len(idpOf) = 0 /\ Len(idpOf) <= MaxLogins /\ "A" \in IdPs
  BY TokenStoreAssumption DEF Init, IdPs
<1>4. TypeOK
  <2> HIDE DEF Labels, Entries, Tokens, None, Roles, IdPs
  <2> DEFINE T == Seq(SUBSET Entries)
  <2> HIDE DEF T
  <2>1. Records = [pc : Labels, role : Roles, idp : IdPs, state : States, todo : T, deleteErrors : SUBSET Entries]
    BY Zenon DEF Records, States, T
  <2> HIDE DEF States
  <2>2. \A c \in Cmds : /\ cmd[c].pc \in Labels /\ cmd[c].role \in Roles /\ cmd[c].idp \in IdPs
                        /\ cmd[c].state \in States /\ cmd[c].todo \in T /\ cmd[c].deleteErrors \in SUBSET Entries
    BY <1>2, <2>1
  <2> QED
    BY <1>1, <1>3, <2>2, NoStateIs, ZenonT(90) DEF TypeOK, States, T
<1>5. \A e \in Entries : store[e] = None
  BY <1>1, NoStateIs, Zenon
<1>6. StoreInv
  <2>1. SameLogin(store) /\ MadeBy(store, Len(idpOf)) /\ store["refresh"] = None
    BY <1>5 DEF SameLogin, MadeBy, Entries
  <2> QED
    BY <1>1, <2>1, Zenon DEF StoreInv, LogoutClears
<1>7. ASSUME NEW c \in Cmds
      PROVE  CmdInv(c)
  <2>1. cmd[c].pc = "idle" /\ MadeBy(cmd[c].state, Len(idpOf))
    <3>1. MadeBy(NoState, Len(idpOf))
      BY NoStateIs, ZenonT(90) DEF MadeBy
    <3> QED
      BY <1>2, <3>1, Zenon
  <2>2. ShapeInv(c) /\ NewInv(c) /\ HeldInv(c) /\ ViewInv(c) /\ WholeInv(c)
    BY <2>1 DEF ShapeInv, Touching, Using, Writing, NewInv, NewLogin, HeldInv, ViewInv, Refreshed, WholeInv
  <2> QED
    BY <2>2, Zenon DEF CmdInv
<1> QED
  BY <1>2, <1>4, <1>6, <1>7, Zenon DEF TokenInv
-----------------------------------------------------------------------------
(* The inductive invariant: what every command holds and has left to do    *)
(* agrees with the store and with the IdP, as long as no two commands      *)
(* overlap.                                                                *)
THEOREM TokenInvariance == Spec => []TokenInv
<1>1. Init => TokenInv
  BY TokenInit
<1>2. TokenInv /\ [Next]_vars => TokenInv'
  <2> SUFFICES ASSUME TokenInv, [Next]_vars
               PROVE  TokenInv'
    OBVIOUS
  <2>1. ASSUME NEW c \in Cmds, NEW r \in Roles, Start(c, r)
        PROVE  TokenInv'
    BY <2>1, StartKeeps, Zenon
  <2>2. ASSUME NEW c \in Cmds, Step(c)
        PROVE  TokenInv'
    BY <2>2, LoadKeeps, DecideKeeps, GrantKeeps, LeavesKeep, ExchangeKeeps, SaveKeeps,
       DeleteKeeps, StoreFailsKeeps, ZenonT(90) DEF Step
  <2>3. CASE EditProfile \/ Expire \/ UNCHANGED vars
    BY <2>3, QuietKeeps, Zenon
  <2> QED
    BY <2>1, <2>2, <2>3, Zenon DEF Next
<1> QED
  BY <1>1, <1>2, PTL DEF Spec

(* Load, Save, Delete and AccessToken keep the types; Save never stores    *)
(* anything but tokens the IdP issued.                                     *)
THEOREM TokenTypeCorrect == Spec => []TypeOK
<1>1. TokenInv => TypeOK
  BY ZenonT(90) DEF TokenInv
<1> QED
  BY <1>1, TokenInvariance, PTL

(* The stored refresh token is the one the IdP honours, through rotations, *)
(* failed saves and kills between two keychain entries: Save writes it     *)
(* first.                                                                  *)
THEOREM StoredRefreshLiveHolds == Spec => []StoredRefreshLive
<1>1. TokenInv => StoredRefreshLive
  BY Zenon DEF TokenInv, StoreInv, StoredRefreshLive
<1> QED
  BY <1>1, TokenInvariance, PTL

(* A refresh token goes to the IdP that issued it: AccessToken compares    *)
(* the metadata entry only, and Save leaves all entries of one login.      *)
THEOREM RefreshGoesHomeHolds == Spec => []RefreshGoesHome
<1>1. TokenInv => RefreshGoesHome
  BY Zenon DEF TokenInv, CmdInv, WholeInv, RefreshGoesHome
<1> QED
  BY <1>1, TokenInvariance, PTL

(* What a logout has not reported as failed it has removed, and it stays   *)
(* removed until a login, or a refresh from what a failed logout left.     *)
THEOREM LogoutClearsHolds == Spec => []LogoutClears
<1>1. TokenInv => LogoutClears
  BY Zenon DEF TokenInv, StoreInv
<1> QED
  BY <1>1, TokenInvariance, PTL
=============================================================================
