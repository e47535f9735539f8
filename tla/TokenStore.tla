----------------------------- MODULE TokenStore -----------------------------
(***************************************************************************)
(* The CLI's OAuth token state of one profile: `login` stores it,          *)
(* AccessToken loads it, refreshes it at the IdP and stores it back, and   *)
(* `logout` deletes it (internal/oauthlogin, internal/tokenstore).         *)
(*                                                                         *)
(* The keychain backend keeps three entries and touches them one by one;   *)
(* the file backend replaces one file.  Commands are processes without a   *)
(* lock between them, and may be killed between two entries.               *)
(*                                                                         *)
(* A token is <<login, n>>: the login it stems from and the grant of that  *)
(* login that issued it.  The metadata entry is the login with n = 0.      *)
(***************************************************************************)
EXTENDS Integers, Sequences, FiniteSets

CONSTANTS Cmds,      \* the commands
          Keychain,  \* TRUE: the keychain backend, FALSE: the file backend
          MaxLogins, \* bound on the logins
          MaxGrants  \* bound on the grants of one login, the first included

ASSUME TokenStoreAssumption ==
  /\ Keychain \in BOOLEAN
  /\ MaxLogins \in Nat
  /\ MaxGrants \in Nat \ {0}

VARIABLES store,     \* the backend's entries
          profile,   \* the IdP the profile names
          idpOf,     \* the IdP of every login made so far, in order
          grants,    \* grants the IdP made for each login
          live,      \* the grant whose refresh token the IdP honours
          fresh,     \* access tokens that have not come near their expiry
          cmd,       \* the state of each command
          busy,      \* history: commands between their first and last access
          raced,     \* history: two commands overlapped
          torn,      \* history: a save stopped between two entries
          lost,      \* history: a rotated token was lost before the save
          gone       \* history: entries a logout returned without an error for,
                     \*   and nothing that followed could bring back

vars == <<store, profile, idpOf, grants, live, fresh, cmd, busy, raced, torn,
          lost, gone>>

idp == <<idpOf, grants, live, fresh>>

Entries == {"refresh", "access", "meta"}

IdPs == {"A", "B"}

None == <<0, 0>>

Tokens == (1..MaxLogins) \X (0..MaxGrants)

NoState == [e \in Entries |-> None]

Roles == {"login", "use", "logout"}

Labels == {"idle", "load", "decide", "grant", "exchange", "save", "delete", "exit"}

\* The order in which Load, Save and Delete touch the entries.
LoadOrder ==
  IF Keychain THEN <<{"meta"}, {"refresh"}, {"access"}>> ELSE <<Entries>>

\* Mutant of SaveOrder: the refresh token is written last.
SaveOrderRefreshLast ==
  IF Keychain THEN <<{"access"}, {"meta"}, {"refresh"}>> ELSE <<Entries>>

SaveOrder ==
  IF Keychain THEN <<{"refresh"}, {"access"}, {"meta"}>> ELSE <<Entries>>

DeleteOrder ==
  IF Keychain THEN <<{"access"}, {"refresh"}, {"meta"}>> ELSE <<Entries>>

\* A command: where it is, which one, the IdP its profile resolved to, the
\* token state it holds, the entries it has yet to touch, and Delete's errors.
Resting(label) == [pc |-> label, role |-> "use", idp |-> "A", state |-> NoState,
                   todo |-> <<>>, deleteErrors |-> {}]

Init ==
  /\ store = NoState
  /\ profile = "A"
  /\ idpOf = <<>>
  /\ grants = [l \in 1..MaxLogins |-> 0]
  /\ live = [l \in 1..MaxLogins |-> 0]
  /\ fresh = {}
  /\ cmd = [c \in Cmds |-> Resting("idle")]
  /\ busy = {}
  /\ raced = FALSE
  /\ torn = FALSE
  /\ lost = FALSE
  /\ gone = {}

\* The command goes on.
GoOn(c, label, state, todo, errors) ==
  cmd' = [cmd EXCEPT ![c] = [pc |-> label, role |-> @.role, idp |-> @.idp, state |-> state,
                             todo |-> todo, deleteErrors |-> errors]]

\* The command returns.
Exit(c) ==
  /\ cmd' = [cmd EXCEPT ![c] = Resting("exit")]
  /\ busy' = busy \ {c}

Start(c, r) ==
  /\ cmd[c].pc = "idle"
  /\ cmd' = [cmd EXCEPT ![c] =
       [pc |-> CASE r = "login" -> "exchange" [] r = "use" -> "load"
                 [] r = "logout" -> "delete",
        role |-> r, idp |-> profile, state |-> NoState,
        todo |-> CASE r = "login" -> <<>> [] r = "use" -> LoadOrder
                   [] r = "logout" -> DeleteOrder,
        deleteErrors |-> {}]]
  /\ UNCHANGED <<store, profile, idp, busy, raced, torn, lost, gone>>
-----------------------------------------------------------------------------
\* Load reads the next entries.  Without metadata or a refresh token there is
\* nothing to load (ErrLoginRequired); an absent access token is fine.
Load(c) ==
  LET me  == cmd[c]
      got == [e \in Entries |-> IF e \in Head(me.todo) THEN store[e] ELSE me.state[e]]
  IN /\ me.pc = "load"
     /\ raced' = (raced \/ busy \ {c} # {})
     /\ IF \E e \in Head(me.todo) \ {"access"} : store[e] = None
        THEN Exit(c)
        ELSE /\ busy' = busy \cup {c}
             /\ GoOn(c, IF Len(me.todo) = 1 THEN "decide" ELSE "load", got, Tail(me.todo), {})
     /\ UNCHANGED <<store, profile, idp, torn, lost, gone>>

\* Mutant of Usable: the cached state is not compared with the profile.
UsableAnyIdP(c) == TRUE

\* The cached state belongs to the IdP the profile resolved to.
Usable(c) == idpOf[cmd[c].state["meta"][1]] = cmd[c].idp

\* AccessToken: a state of another IdP and an expired refresh token require a
\* login; a fresh access token is returned; otherwise it is refreshed.
Decide(c) ==
  /\ cmd[c].pc = "decide"
  /\ \/ /\ ~Usable(c) \/ cmd[c].state["access"] \in fresh
        /\ Exit(c)
     \/ /\ Usable(c) /\ cmd[c].state["access"] \notin fresh
        /\ \/ Exit(c)
           \/ GoOn(c, "grant", cmd[c].state, <<>>, {}) /\ UNCHANGED busy
  /\ UNCHANGED <<store, profile, idp, raced, torn, lost, gone>>

\* Mutant of Merged: an answer without an access token is saved as it is.
MergedEmptyAccess(state, access, refresh) ==
  [state EXCEPT !["access"] = <<>>, !["refresh"] = refresh]

\* The state AccessToken saves: the new tokens, the rest as loaded.
Merged(state, access, refresh) ==
  [state EXCEPT !["access"] = access, !["refresh"] = refresh]

\* The refresh-token grant.  The IdP may rotate the refresh token, which
\* ends the old one, or leave it.
Grant(c) ==
  LET me == cmd[c]
      l  == me.state["refresh"][1]
      n  == grants[l] + 1
  IN /\ me.pc = "grant"
     /\ idpOf[l] = me.idp
     /\ live[l] = me.state["refresh"][2]
     /\ n <= MaxGrants
     /\ grants' = [grants EXCEPT ![l] = n]
     /\ fresh' = fresh \cup {<<l, n>>}
     /\ \E rotate \in BOOLEAN :
          /\ live' = IF rotate THEN [live EXCEPT ![l] = n] ELSE live
          /\ GoOn(c, "save",
                  Merged(me.state, <<l, n>>, IF rotate THEN <<l, n>> ELSE me.state["refresh"]),
                  SaveOrder, {})
     /\ UNCHANGED <<store, profile, idpOf, busy, raced, torn, lost, gone>>

\* The IdP refuses the token, cannot be reached, or answers without a token.
\* When it had rotated the refresh token before its answer got lost or was
\* refused, that is Grant and then a StoreFails before the first entry.
GrantFails(c) ==
  /\ cmd[c].pc \in {"grant", "exchange"}
  /\ Exit(c)
  /\ UNCHANGED <<store, profile, idp, raced, torn, lost, gone>>

\* Login: the callback delivered a code and the exchange succeeded.
Exchange(c) ==
  LET l == Len(idpOf) + 1
  IN /\ cmd[c].pc = "exchange"
     /\ l <= MaxLogins
     /\ idpOf' = Append(idpOf, cmd[c].idp)
     /\ grants' = [grants EXCEPT ![l] = 1]
     /\ live' = [live EXCEPT ![l] = 1]
     /\ fresh' = fresh \cup {<<l, 1>>}
     /\ GoOn(c, "save", [e \in Entries |-> IF e = "meta" THEN <<l, 0>> ELSE <<l, 1>>],
             SaveOrder, {})
     /\ UNCHANGED <<store, profile, busy, raced, torn, lost, gone>>

\* What a save brings back: a login everything, a refresh what it writes when
\* a logout had left it the entries that Load insists on.
Restored(role, entries) ==
  CASE role = "login" -> Entries
    [] role # "login" /\ gone \subseteq {"access"} -> entries
    [] OTHER -> {}

\* Save writes the next entries.
Save(c) ==
  LET me == cmd[c]
  IN /\ me.pc = "save"
     /\ raced' = (raced \/ busy \ {c} # {})
     /\ store' = [e \in Entries |-> IF e \in Head(me.todo) THEN me.state[e] ELSE store[e]]
     /\ gone' = gone \ Restored(me.role, Head(me.todo))
     /\ IF Len(me.todo) = 1
        THEN Exit(c)
        ELSE GoOn(c, "save", me.state, Tail(me.todo), {}) /\ busy' = busy \cup {c}
     /\ UNCHANGED <<profile, idp, torn, lost>>

\* Delete removes the next entries; a missing entry is not an error.
Delete(c) ==
  LET me == cmd[c]
  IN /\ me.pc = "delete"
     /\ raced' = (raced \/ busy \ {c} # {})
     /\ store' = [e \in Entries |-> IF e \in Head(me.todo) THEN None ELSE store[e]]
     /\ IF Len(me.todo) = 1
        THEN Exit(c) /\ gone' = gone \cup (Entries \ me.deleteErrors)
        ELSE /\ GoOn(c, "delete", me.state, Tail(me.todo), me.deleteErrors)
             /\ busy' = busy \cup {c}
             /\ UNCHANGED gone
     /\ UNCHANGED <<profile, idp, torn, lost>>

\* Mutant of StoreFails: an entry that cannot be deleted ends the logout.
StoreFailsAtOnce(c) ==
  LET me == cmd[c]
  IN /\ me.pc \in {"load", "save", "delete"}
     /\ torn' = (torn \/ (me.pc = "save" /\ me.todo # SaveOrder))
     /\ lost' = (lost \/ (me.pc = "save" /\ me.todo = SaveOrder))
     /\ gone' = IF me.pc = "delete" THEN gone \cup (Entries \ Head(me.todo)) ELSE gone
     /\ Exit(c)
     /\ raced' = (raced \/ busy \ {c} # {})
     /\ UNCHANGED <<store, profile, idp>>

\* A backend call fails.  Load and Save return; Delete goes on with the next
\* entry and reports the errors at the end.
StoreFails(c) ==
  LET me     == cmd[c]
      errors == me.deleteErrors \cup Head(me.todo)
  IN /\ me.pc \in {"load", "save", "delete"}
     /\ torn' = (torn \/ (me.pc = "save" /\ me.todo # SaveOrder))
     /\ lost' = (lost \/ (me.pc = "save" /\ me.todo = SaveOrder))
     /\ gone' = IF me.pc = "delete" /\ Len(me.todo) = 1 THEN gone \cup (Entries \ errors) ELSE gone
     /\ IF me.pc = "delete" /\ Len(me.todo) > 1
        THEN /\ GoOn(c, "delete", me.state, Tail(me.todo), errors)
             /\ busy' = busy \cup {c}
        ELSE Exit(c)
     /\ raced' = (raced \/ busy \ {c} # {})
     /\ UNCHANGED <<store, profile, idp>>

\* SIGKILL.  A save that has not begun loses what the IdP just issued.
Kill(c) ==
  LET me == cmd[c]
  IN /\ me.pc \notin {"idle", "exit"}
     /\ torn' = (torn \/ (me.pc = "save" /\ me.todo # SaveOrder))
     /\ lost' = (lost \/ (me.pc = "save" /\ me.todo = SaveOrder))
     /\ Exit(c)
     /\ UNCHANGED <<store, profile, idp, raced, gone>>

\* The engineer points the profile at the other IdP.
EditProfile ==
  /\ profile' \in IdPs \ {profile}
  /\ UNCHANGED <<store, idp, cmd, busy, raced, torn, lost, gone>>

\* An access token comes within the refresh skew of its expiry.
Expire ==
  /\ \E t \in fresh : fresh' = fresh \ {t}
  /\ UNCHANGED <<store, profile, idpOf, grants, live, cmd, busy, raced, torn,
                 lost, gone>>

Step(c) ==
  \/ Load(c) \/ Decide(c) \/ Grant(c) \/ GrantFails(c) \/ Exchange(c)
  \/ Save(c) \/ Delete(c) \/ StoreFails(c) \/ Kill(c)

Next ==
  \/ \E c \in Cmds : (\E r \in Roles : Start(c, r)) \/ Step(c)
  \/ EditProfile
  \/ Expire

Spec == Init /\ [][Next]_vars
-----------------------------------------------------------------------------
\* The types; Save never stores anything but tokens the IdP issued.
TypeOK ==
  /\ store \in [Entries -> Tokens \cup {None}]
  /\ profile \in IdPs
  /\ idpOf \in Seq(IdPs) /\ Len(idpOf) <= MaxLogins
  /\ grants \in [1..MaxLogins -> 0..MaxGrants]
  /\ live \in [1..MaxLogins -> 0..MaxGrants]
  /\ fresh \subseteq Tokens
  /\ \A c \in Cmds :
       /\ cmd[c].pc \in Labels
       /\ cmd[c].role \in Roles
       /\ cmd[c].idp \in IdPs
       /\ cmd[c].state \in [Entries -> Tokens \cup {None}]
       /\ cmd[c].todo \in Seq(SUBSET Entries)
       /\ cmd[c].deleteErrors \subseteq Entries
  /\ busy \subseteq Cmds
  /\ {raced, torn, lost} \subseteq BOOLEAN
  /\ gone \subseteq Entries

\* Login, AccessToken and the Save order: when no command is under way and
\* none have overlapped, the stored refresh token is the one the IdP still
\* honours, through rotations, failed saves and kills between two keychain
\* entries, unless a kill or a failure came between the IdP's answer and the
\* first entry written.
StoredRefreshLive ==
  busy = {} /\ ~raced /\ ~lost /\ store["refresh"] # None =>
    live[store["refresh"][1]] = store["refresh"][2]

\* AccessToken's issuer check and Save: a refresh token is only ever presented
\* to the IdP that issued it, as long as no commands overlapped and no save
\* stopped between two keychain entries, however often the profile moves from
\* one IdP to the other.
RefreshGoesHome ==
  ~raced /\ ~torn => \A c \in Cmds :
    cmd[c].pc = "grant" => idpOf[cmd[c].state["refresh"][1]] = cmd[c].idp

\* Delete: a logout that has returned, whether it succeeded or not, leaves
\* nothing but the entries whose own deletion failed, and it stays so until the
\* next login, or until a refresh from a token state that a failed logout left
\* loadable; as long as no commands overlapped.
LogoutClears ==
  ~raced => \A e \in gone : store[e] = None
=============================================================================
