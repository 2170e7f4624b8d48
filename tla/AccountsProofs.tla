---------------------------- MODULE AccountsProofs ----------------------------
(***************************************************************************)
(* Theorems about the credentials of an account (AuthSessions) and about   *)
(* the account itself (Accounts), for any number of calls of every kind.   *)
(* Accounts takes the steps of AuthSessions and admits logins of its own,  *)
(* so what is inductive for the credentials stays so there.                *)
(***************************************************************************)
EXTENDS Accounts, TLAPS

(* The session of a login that has not answered yet does not exist.          *)
SessionNotYet == \A c \in Logins : pc[c] \in {"new", "read"} => session[c] = "none"

(* Every link that has a row was made after the last change of the password. *)
LinksAreFresh == \A f \in Forgots : link[f] \in {"active", "used"} => issuedAt[f] = changed

(* The types that do not depend on whether the account has a password: in    *)
(* Accounts it may have none.                                                *)
AuthTypes ==
    /\ session \in [Logins -> SessionState] /\ lapsed \subseteq Logins
    /\ link \in [Forgots -> LinkState] /\ dead \subseteq Forgots
    /\ pc \in [Calls -> {"new", "read", "done", "failed"}]
    /\ on \in [Refreshes \cup Resets -> Logins \cup Forgots]
    /\ doomed \in [Forgots -> SUBSET Forgots]
    /\ epoch \in Nat /\ changed \in Nat
    /\ openedAt \in [Logins -> Nat]
    /\ issuedAt \in [Forgots -> Nat] /\ uses \in [Forgots -> Nat]

PasswordTypes == password \in Passwords /\ choice \in [Resets \cup Changes -> Passwords]

AuthInv == AuthTypes /\ SessionNotYet /\ LinksAreFresh

USE DEF SessionState, LinkState

(* Every variable keeps its type. *)
LEMMA TypeStep == AuthTypes /\ [Next]_vars => AuthTypes'
<1> SUFFICES ASSUME AuthTypes, [Next]_vars PROVE AuthTypes'
  OBVIOUS
<1> USE DEF AuthTypes, Step, sessionVars, linkVars, passwordVars, Calls
<1>1. ASSUME NEW c \in Logins, LoginReads(c) PROVE AuthTypes'
  BY <1>1 DEF LoginReads
<1>2. ASSUME NEW c \in Logins, LoginOpens(c) PROVE AuthTypes'
  BY <1>2 DEF LoginOpens
<1>3. ASSUME NEW c \in Refreshes, RefreshReads(c) PROVE AuthTypes'
  BY <1>3 DEF RefreshReads
<1>4. ASSUME NEW c \in Refreshes, RefreshWrites(c) PROVE AuthTypes'
  BY <1>4 DEF RefreshWrites
<1>5. ASSUME NEW s \in Logins, Logout(s) PROVE AuthTypes'
  BY <1>5 DEF Logout
<1>6. ASSUME NEW s \in Logins, SessionLapses(s) PROVE AuthTypes'
  BY <1>6 DEF SessionLapses
<1>7. CASE LogoutAll
  BY <1>7 DEF LogoutAll, RevokeAll
<1>8. ASSUME NEW c \in Forgots, ForgotDeletes(c) PROVE AuthTypes'
  BY <1>8 DEF ForgotDeletes, Rows
<1>9. ASSUME NEW c \in Forgots, ForgotCommits(c) PROVE AuthTypes'
  BY <1>9 DEF ForgotCommits
<1>10. ASSUME NEW c \in Forgots, LinkLapses(c) PROVE AuthTypes'
  BY <1>10 DEF LinkLapses
<1>11. ASSUME NEW c \in Resets, ResetReads(c) PROVE AuthTypes'
  BY <1>11 DEF ResetReads
<1>12. ASSUME NEW c \in Resets, ResetCommits(c) PROVE AuthTypes'
  BY <1>12 DEF ResetCommits, SetPassword, RevokeAll, Rows
<1>13. ASSUME NEW c \in Changes, ChangeReads(c) PROVE AuthTypes'
  BY <1>13 DEF ChangeReads
<1>14. ASSUME NEW c \in Changes, ChangeCommits(c) PROVE AuthTypes'
  BY <1>14 DEF ChangeCommits, SetPassword, RevokeAll, Rows
<1>15. CASE UNCHANGED vars
  BY <1>15 DEF vars
<1> QED
  BY <1>1, <1>2, <1>3, <1>4, <1>5, <1>6, <1>7, <1>8, <1>9, <1>10, <1>11,
     <1>12, <1>13, <1>14, <1>15 DEF Next

LEMMA PasswordStep == PasswordTypes /\ [Next]_vars => PasswordTypes'
<1> SUFFICES ASSUME PasswordTypes, [Next]_vars PROVE PasswordTypes'
  OBVIOUS
<1> USE DEF PasswordTypes, passwordVars
<1>1. ASSUME NEW c \in Resets, ResetReads(c) \/ ResetCommits(c) PROVE PasswordTypes'
  BY <1>1 DEF ResetReads, ResetCommits, SetPassword
<1>2. ASSUME NEW c \in Changes, ChangeReads(c) \/ ChangeCommits(c) PROVE PasswordTypes'
  BY <1>2 DEF ChangeReads, ChangeCommits, SetPassword
<1>3. \/ UNCHANGED <<password, choice>>
      \/ \E c \in Resets : ResetReads(c) \/ ResetCommits(c)
      \/ \E c \in Changes : ChangeReads(c) \/ ChangeCommits(c)
  BY DEF Next, vars, LoginReads, LoginOpens, RefreshReads, RefreshWrites, Logout, LogoutAll,
         SessionLapses, ForgotDeletes, ForgotCommits, LinkLapses
<1> QED BY <1>1, <1>2, <1>3

(* A session exists only once its login answers. *)
LEMMA SessionStep == AuthTypes /\ SessionNotYet /\ [Next]_vars => SessionNotYet'
<1> SUFFICES ASSUME AuthTypes, SessionNotYet, [Next]_vars PROVE SessionNotYet'
  OBVIOUS
<1> USE CallsAssumption DEF AuthTypes, SessionNotYet, Step, sessionVars, Calls
<1>1. ASSUME NEW c \in Logins, LoginReads(c) PROVE SessionNotYet'
  BY <1>1 DEF LoginReads
<1>2. ASSUME NEW c \in Logins, LoginOpens(c) PROVE SessionNotYet'
  BY <1>2 DEF LoginOpens
<1>3. ASSUME NEW c \in Refreshes, RefreshReads(c) \/ RefreshWrites(c) PROVE SessionNotYet'
  BY <1>3 DEF RefreshReads, RefreshWrites
<1>4. ASSUME NEW s \in Logins, Logout(s) \/ SessionLapses(s) PROVE SessionNotYet'
  BY <1>4 DEF Logout, SessionLapses
<1>5. CASE LogoutAll
  BY <1>5 DEF LogoutAll, RevokeAll
<1>6. ASSUME NEW c \in Forgots, ForgotDeletes(c) \/ ForgotCommits(c) \/ LinkLapses(c)
      PROVE SessionNotYet'
  BY <1>6 DEF ForgotDeletes, ForgotCommits, LinkLapses
<1>7. ASSUME NEW c \in Resets, ResetReads(c) \/ ResetCommits(c) PROVE SessionNotYet'
  BY <1>7 DEF ResetReads, ResetCommits, SetPassword, RevokeAll
<1>8. ASSUME NEW c \in Changes, ChangeReads(c) \/ ChangeCommits(c) PROVE SessionNotYet'
  BY <1>8 DEF ChangeReads, ChangeCommits, SetPassword, RevokeAll
<1>9. CASE UNCHANGED vars
  BY <1>9 DEF vars
<1> QED
  BY <1>1, <1>2, <1>3, <1>4, <1>5, <1>6, <1>7, <1>8, <1>9 DEF Next

(* A change of the password deletes every link that is older than itself. *)
LEMMA LinkStep == AuthTypes /\ LinksAreFresh /\ [Next]_vars => LinksAreFresh'
<1> SUFFICES ASSUME AuthTypes, LinksAreFresh, [Next]_vars PROVE LinksAreFresh'
  OBVIOUS
<1> USE DEF AuthTypes, LinksAreFresh, linkVars, passwordVars
<1>1. ASSUME NEW c \in Logins,
             LoginReads(c) \/ LoginOpens(c) \/ Logout(c) \/ SessionLapses(c)
      PROVE LinksAreFresh'
  BY <1>1 DEF LoginReads, LoginOpens, Logout, SessionLapses
<1>2. ASSUME NEW c \in Refreshes, RefreshReads(c) \/ RefreshWrites(c) PROVE LinksAreFresh'
  BY <1>2 DEF RefreshReads, RefreshWrites
<1>3. CASE LogoutAll
  BY <1>3 DEF LogoutAll
<1>4. ASSUME NEW c \in Forgots, ForgotDeletes(c) \/ LinkLapses(c) PROVE LinksAreFresh'
  BY <1>4 DEF ForgotDeletes, LinkLapses
<1>5. ASSUME NEW c \in Forgots, ForgotCommits(c) PROVE LinksAreFresh'
  BY <1>5 DEF ForgotCommits
<1>6. ASSUME NEW c \in Resets, ResetReads(c) PROVE LinksAreFresh'
  BY <1>6 DEF ResetReads
<1>7. ASSUME NEW c \in Resets, ResetCommits(c) PROVE LinksAreFresh'
  BY <1>7 DEF ResetCommits, Rows
<1>8. ASSUME NEW c \in Changes, ChangeReads(c) PROVE LinksAreFresh'
  BY <1>8 DEF ChangeReads
<1>9. ASSUME NEW c \in Changes, ChangeCommits(c) PROVE LinksAreFresh'
  BY <1>9 DEF ChangeCommits, Rows
<1>10. CASE UNCHANGED vars
  BY <1>10 DEF vars
<1> QED
  BY <1>1, <1>2, <1>3, <1>4, <1>5, <1>6, <1>7, <1>8, <1>9, <1>10 DEF Next

LEMMA InitEstablishes == Init => AuthInv
<1> SUFFICES ASSUME Init PROVE AuthInv
  OBVIOUS
<1>1. (CHOOSE x \in Logins \cup Forgots : TRUE) \in Logins \cup Forgots
  BY AccountAssumption
<1>2. AuthTypes
  BY <1>1 DEF Init, AuthTypes
<1>3. SessionNotYet /\ LinksAreFresh
  BY DEF Init, SessionNotYet, LinksAreFresh
<1> QED
  BY <1>2, <1>3 DEF AuthInv

(* The three parts together are inductive. *)
LEMMA InvHolds == Spec => []AuthInv
<1>1. AuthInv /\ [Next]_vars => AuthInv'
  BY TypeStep, SessionStep, LinkStep DEF AuthInv
<1> QED
  BY <1>1, InitEstablishes, PTL DEF Spec

(* Every reachable state is well typed. *)
THEOREM TypeCorrect == Spec => []TypeOK
<1>1. Init => PasswordTypes
  BY DEF Init, PasswordTypes
<1>2. AuthInv /\ PasswordTypes => TypeOK
  BY DEF AuthInv, AuthTypes, PasswordTypes, TypeOK
<1> QED
  BY <1>1, <1>2, InvHolds, PasswordStep, PTL DEF Spec

(* A revoked session is revoked after any step.                              *)
LEMMA RevokedStep ==
    ASSUME AuthInv, [Next]_vars, NEW s \in Logins, session[s] = "revoked"
    PROVE  session'[s] = "revoked"
<1> USE DEF AuthInv, AuthTypes, sessionVars
<1>1. ASSUME NEW c \in Logins, LoginOpens(c) PROVE session'[s] = "revoked"
  BY <1>1 DEF LoginOpens, SessionNotYet, Step
<1>2. ASSUME NEW c \in Logins, LoginReads(c) \/ Logout(c) \/ SessionLapses(c)
      PROVE session'[s] = "revoked"
  BY <1>2 DEF LoginReads, Logout, SessionLapses
<1>3. ASSUME NEW c \in Refreshes, RefreshReads(c) \/ RefreshWrites(c)
      PROVE session'[s] = "revoked"
  BY <1>3 DEF RefreshReads, RefreshWrites
<1>4. CASE LogoutAll
  BY <1>4 DEF LogoutAll, RevokeAll
<1>5. ASSUME NEW c \in Forgots, ForgotDeletes(c) \/ ForgotCommits(c) \/ LinkLapses(c)
      PROVE session'[s] = "revoked"
  BY <1>5 DEF ForgotDeletes, ForgotCommits, LinkLapses
<1>6. ASSUME NEW c \in Resets, ResetReads(c) \/ ResetCommits(c) PROVE session'[s] = "revoked"
  BY <1>6 DEF ResetReads, ResetCommits, SetPassword, RevokeAll
<1>7. ASSUME NEW c \in Changes, ChangeReads(c) \/ ChangeCommits(c)
      PROVE session'[s] = "revoked"
  BY <1>7 DEF ChangeReads, ChangeCommits, SetPassword, RevokeAll
<1>8. CASE UNCHANGED vars
  BY <1>8 DEF vars
<1> QED
  BY <1>1, <1>2, <1>3, <1>4, <1>5, <1>6, <1>7, <1>8 DEF Next

(* A reset that goes through uses a link of the last change of the password. *)
LEMMA ResetStep ==
    ASSUME AuthInv, [Next]_vars, NEW f \in Forgots, uses'[f] > uses[f]
    PROVE  issuedAt[f] = changed
<1> USE DEF AuthInv, AuthTypes, linkVars
<1>1. ASSUME NEW c \in Resets, ResetCommits(c) PROVE issuedAt[f] = changed
  BY <1>1 DEF ResetCommits, LinksAreFresh, Rows
<1>2. uses' = uses \/ \E c \in Resets : ResetCommits(c)
  BY DEF Next, vars, LoginReads, LoginOpens, RefreshReads, RefreshWrites, Logout,
         LogoutAll, SessionLapses, ForgotDeletes, ForgotCommits, LinkLapses,
         ResetReads, ChangeReads, ChangeCommits
<1> QED
  BY <1>1, <1>2

(* No interleaving of refreshes, logins, logouts and password changes brings *)
(* a revoked session back.                                                   *)
THEOREM SessionsStayRevoked == Spec => RevokedStaysRevoked
<1>1. AuthInv /\ [Next]_vars
        => [\A s \in Logins : session[s] = "revoked" => session'[s] = "revoked"]_vars
  BY RevokedStep
<1> QED
  BY <1>1, InvHolds, PTL DEF Spec, RevokedStaysRevoked

(* No reset goes through with a link that is older than the last change of   *)
(* the password, however the calls interleave.                               *)
THEOREM OldLinksNeverReset == Spec => LinkDiesWithChange
<1>1. AuthInv /\ [Next]_vars
        => [\A f \in Forgots : uses'[f] > uses[f] => issuedAt[f] = changed]_vars
  BY ResetStep
<1> QED
  BY <1>1, InvHolds, PTL DEF Spec, LinkDiesWithChange

-----------------------------------------------------------------------------
(***************************************************************************)
(* Accounts and Google identities.                                         *)
(*                                                                         *)
(* None of the properties is inductive.  That an identity is never         *)
(* replaced rests on whose identities may meet this account at all: those  *)
(* with its address, of which Google gives out one.  That a session of a   *)
(* Google login is of the linked identity has to hold from the moment the  *)
(* call was admitted, long before it opens the session.                    *)
(***************************************************************************)

JoinStages == {"none", "loginById", "loginByMail", "registerById",
               "registerByMail", "create", "created"}
Ids == Identities \cup {None}

AccountTypes ==
    /\ exists \in BOOLEAN /\ google \in Ids /\ epoch \in Nat
    /\ join \in [Logins -> [at : JoinStages, intent : Intents, id : Ids,
                            secret : Passwords \cup {None}]]
    /\ linker \in [Links -> [at : {"new", "write", "done"}, id : Ids]]
    /\ session \in [Logins -> SessionState]
    /\ pc \in [Calls -> {"new", "read", "done", "failed"}]

(* An identity that is linked, is about to be, or logs in here, has the    *)
(* address of the account; and what is linked or about to be has a row.    *)
IdentitiesMatch ==
    /\ google # None => exists /\ Mail[google]
    /\ \A c \in Logins : join[c].id # None => Mail[join[c].id]
    /\ \A k \in Links : linker[k].at = "write" =>
         exists /\ linker[k].id # None /\ Mail[linker[k].id]

(* A Google login that was admitted is one of the linked identity.         *)
AdmittedIsLinked ==
    \A c \in Logins :
      /\ join[c].at = "none" => join[c].id = None
      /\ join[c].id # None /\ pc[c] \in {"read", "done"} => google = join[c].id

SessionsWereOpened == \A c \in Logins : session[c] # "none" => pc[c] = "done"

AccountInv ==
    AccountTypes /\ IdentitiesMatch /\ AdmittedIsLinked /\ SessionsWereOpened

-----------------------------------------------------------------------------
(* How a step of AuthSessions may move a login, and the password.          *)
LoginsGoOn ==
    /\ epoch' \in Nat /\ (password' # password => epoch' > epoch)
    /\ session' \in [Logins -> SessionState]
    /\ pc' \in [Calls -> {"new", "read", "done", "failed"}]
    /\ \A c \in Logins :
         /\ session'[c] # "none" => pc'[c] = "done"
         /\ pc'[c] \in {"read", "done"} =>
              pc[c] \in {"read", "done"} \/ join[c].at = "none"

(* The calls of AuthSessions move no login but by reading and opening, end *)
(* no account and set the password only with a new epoch.                  *)
LEMMA SessionsFrame ==
    ASSUME AccountTypes, SessionsWereOpened, Sessions
    PROVE  UNCHANGED accountVars /\ exists /\ LoginsGoOn
<1> USE DEF AccountTypes, SessionsWereOpened, SessionState, Step, sessionVars,
            linkVars, passwordVars, LoginsGoOn
<1>c. /\ Logins \subseteq Calls /\ Refreshes \subseteq Calls
      /\ Forgots \subseteq Calls /\ Resets \subseteq Calls /\ Changes \subseteq Calls
      /\ Logins \cap (Refreshes \cup Forgots \cup Resets \cup Changes) = {}
  BY CallsAssumption DEF Calls
<1>0. UNCHANGED accountVars /\ exists
  BY DEF Sessions
<1>1. ASSUME NEW c \in Logins, join[c].at = "none" /\ LoginReads(c) PROVE LoginsGoOn
  BY <1>c, <1>1 DEF LoginReads
<1>2. ASSUME NEW c \in Logins, LoginOpens(c) PROVE LoginsGoOn
  BY <1>c, <1>2 DEF LoginOpens
<1>3. ASSUME NEW c \in Logins, Logout(c) \/ SessionLapses(c) PROVE LoginsGoOn
  BY <1>c, <1>3 DEF Logout, SessionLapses
<1>4. ASSUME LogoutAll PROVE LoginsGoOn
  BY <1>c, <1>4 DEF LogoutAll, RevokeAll
<1>5. ASSUME NEW c \in Refreshes, RefreshReads(c) \/ RefreshWrites(c) PROVE LoginsGoOn
  BY <1>c, <1>5 DEF RefreshReads, RefreshWrites
<1>6. ASSUME NEW c \in Forgots, ForgotDeletes(c) \/ ForgotCommits(c) \/ LinkLapses(c)
      PROVE LoginsGoOn
  BY <1>c, <1>6 DEF ForgotDeletes, ForgotCommits, LinkLapses
<1>7. ASSUME NEW c \in Resets, ResetReads(c) PROVE LoginsGoOn
  BY <1>c, <1>7 DEF ResetReads
<1>8. ASSUME NEW c \in Resets, ResetCommits(c) PROVE LoginsGoOn
  BY <1>c, <1>8 DEF ResetCommits, SetPassword, RevokeAll
<1>9. ASSUME NEW c \in Changes, ChangeReads(c) PROVE LoginsGoOn
  BY <1>c, <1>9 DEF ChangeReads
<1>10. ASSUME NEW c \in Changes, ChangeCommits(c) PROVE LoginsGoOn
  BY <1>c, <1>10 DEF ChangeCommits, SetPassword, RevokeAll
<1> QED
  BY <1>0, <1>1, <1>2, <1>3, <1>4, <1>5, <1>6, <1>7, <1>8, <1>9, <1>10 DEF Sessions

LEMMA AccountInitOK == AccountInit => AccountInv
<1> SUFFICES ASSUME AccountInit PROVE AccountInv
  OBVIOUS
<1> QED
  BY DEF AccountInit, Init, NoJoin, Intents, Ids, JoinStages, SessionState, Calls,
     AccountInv, AccountTypes, IdentitiesMatch, AdmittedIsLinked, SessionsWereOpened

LEMMA AccountNextOK == AccountInv /\ [AccountNext]_allVars => AccountInv'
<1> SUFFICES ASSUME AccountInv, [AccountNext]_allVars PROVE AccountInv'
  OBVIOUS
<1>t. AccountTypes /\ IdentitiesMatch /\ AdmittedIsLinked /\ SessionsWereOpened
  BY DEF AccountInv
<1>c. Logins \subseteq Calls
  BY DEF Calls
<1>n. None \notin Identities
  BY IdentityAssumption
<1>1. CASE Sessions
  <2>1. UNCHANGED accountVars /\ exists /\ LoginsGoOn
    BY <1>1, <1>t, SessionsFrame
  <2> QED
    BY <1>t, <2>1 DEF LoginsGoOn, accountVars, AccountInv, AccountTypes,
       IdentitiesMatch, AdmittedIsLinked, SessionsWereOpened
(* A login call that neither opens a session nor makes the account.        *)
<1>m. ASSUME NEW c \in Logins, pc[c] = "new",
             NEW j \in [at : JoinStages, intent : Intents, id : Ids,
                        secret : Passwords \cup {None}],
             NEW p \in {"new", "read", "failed"},
             join' = [join EXCEPT ![c] = j], pc' = [pc EXCEPT ![c] = p],
             j.at = "none" => j.id = None,
             j.id # None => Mail[j.id],
             p = "read" /\ j.id # None => google = j.id,
             UNCHANGED <<exists, google, epoch, linker, session>>
      PROVE  AccountInv'
  <2>1. AccountTypes' /\ IdentitiesMatch'
    BY <1>t, <1>c, <1>m DEF AccountTypes, IdentitiesMatch
  <2>2. AdmittedIsLinked' /\ SessionsWereOpened'
    BY <1>t, <1>c, <1>m DEF AccountTypes, AdmittedIsLinked, SessionsWereOpened
  <2> QED  BY <2>1, <2>2 DEF AccountInv
<1>j. ASSUME NEW c \in Logins
      PROVE  /\ join[c] \in [at : JoinStages, intent : Intents, id : Ids,
                             secret : Passwords \cup {None}]
             /\ join = [join EXCEPT ![c] = join[c]]
             /\ pc = [pc EXCEPT ![c] = pc[c]]
             /\ join[c].at = "none" => join[c].id = None
             /\ join[c].id # None => Mail[join[c].id]
  BY <1>t DEF AccountTypes, IdentitiesMatch, AdmittedIsLinked
<1>r. ASSUME NEW c \in Logins, pc[c] = "new", Refused(c), UNCHANGED join,
             UNCHANGED <<exists, google, epoch, linker>>
      PROVE  AccountInv'
  BY <1>j, <1>m, <1>r DEF Refused, sessionVars
<1>v. ASSUME NEW c \in Logins, NEW at \in JoinStages \ {"none"},
             pc[c] = "new", Moved(c, at), UNCHANGED <<exists, google, epoch, linker>>
      PROVE  AccountInv'
  <2> DEFINE j == [join[c] EXCEPT !.at = at]
  <2>1. /\ j \in [at : JoinStages, intent : Intents, id : Ids,
                  secret : Passwords \cup {None}]
        /\ j.at = at /\ j.id = join[c].id
    BY <1>j
  <2>2. join' = [join EXCEPT ![c] = j] /\ pc' = [pc EXCEPT ![c] = "new"]
    BY <1>j, <1>v DEF Moved
  <2>3. pc[c] = "new" /\ UNCHANGED <<exists, google, epoch, linker, session>>
    BY <1>v DEF Moved, sessionVars
  <2>4. j.at # "none" /\ (j.id # None => Mail[j.id])
    BY <1>j, <1>v, <2>1
  <2> HIDE DEF j
  <2> QED  BY <1>m, <2>1, <2>2, <2>3, <2>4
<1>a. ASSUME NEW c \in Logins, pc[c] = "new", Admitted(c), UNCHANGED join,
             google = join[c].id,
             UNCHANGED <<exists, google, epoch, linker>>
      PROVE  AccountInv'
  BY <1>j, <1>m, <1>a DEF Admitted
<1>2. ASSUME NEW c \in Logins, Register(c) PROVE AccountInv'
  <2>1. CASE exists
    BY <1>2, <1>r, <2>1 DEF Register, Joining, passwordVars
  <2>2. CASE ~exists
    <3> PICK p \in Passwords :
          join' = [join EXCEPT ![c] = [NoJoin EXCEPT !.at = "create", !.secret = p]]
      BY <1>2, <2>2 DEF Register
    <3> DEFINE j == [NoJoin EXCEPT !.at = "create", !.secret = p]
    <3>1. /\ j \in [at : JoinStages, intent : Intents, id : Ids,
                    secret : Passwords \cup {None}]
          /\ j.at = "create" /\ j.id = None
      BY DEF NoJoin, JoinStages, Intents, Ids
    <3>2. /\ pc[c] = "new" /\ pc' = [pc EXCEPT ![c] = "new"]
          /\ UNCHANGED <<exists, google, epoch, linker, session>>
      BY <1>2, <1>j, <2>2 DEF Register, Joining, passwordVars, sessionVars
    <3>3. join' = [join EXCEPT ![c] = j]
      OBVIOUS
    <3> HIDE DEF j
    <3> QED  BY <1>m, <3>1, <3>2, <3>3
  <2> QED  BY <2>1, <2>2
<1>3. ASSUME NEW c \in Logins, NEW g \in Identities, GoogleStarts(c, g)
      PROVE  AccountInv'
  <2> PICK intent \in Intents :
        join' = [join EXCEPT ![c] = [NoJoin EXCEPT
          !.at = IF intent = "login" THEN "loginById" ELSE "registerById",
          !.intent = intent, !.id = g]]
    BY <1>3 DEF GoogleStarts
  <2> DEFINE at == IF intent = "login" THEN "loginById" ELSE "registerById"
             j == [NoJoin EXCEPT !.at = at, !.intent = intent, !.id = g]
  <2>1. /\ j \in [at : JoinStages, intent : Intents, id : Ids,
                  secret : Passwords \cup {None}]
        /\ j.at # "none" /\ j.id = g
    BY DEF NoJoin, JoinStages, Intents, Ids
  <2>2. Mail[g]
    BY <1>3, <1>n, <1>t DEF GoogleStarts, IdentitiesMatch
  <2>3. /\ pc[c] = "new" /\ pc' = [pc EXCEPT ![c] = "new"]
        /\ UNCHANGED <<exists, google, epoch, linker, session>>
    BY <1>3, <1>j DEF GoogleStarts, Joining, vars, passwordVars, sessionVars
  <2>4. join' = [join EXCEPT ![c] = j]
    OBVIOUS
  <2> HIDE DEF j
  <2> QED  BY <1>m, <2>1, <2>2, <2>3, <2>4
<1>4. ASSUME NEW c \in Logins,
             GoogleLoginById(c) \/ GoogleLoginByMail(c)
             \/ GoogleRegisterById(c) \/ GoogleRegisterByMail(c)
      PROVE  AccountInv'
  BY <1>4, <1>a, <1>r, <1>v DEF GoogleLoginById, GoogleLoginByMail, GoogleRegisterById,
     GoogleRegisterByMail, Joining, JoinStages, passwordVars
<1>5. ASSUME NEW c \in Logins, CreateUser(c) PROVE AccountInv'
  <2>1. CASE exists
    BY <1>5, <1>r, <2>1 DEF CreateUser, Joining, passwordVars
  <2>2. CASE ~exists
    <3> DEFINE j == [join[c] EXCEPT !.at = "created"]
    <3>1. /\ j \in [at : JoinStages, intent : Intents, id : Ids,
                    secret : Passwords \cup {None}]
          /\ j.at = "created" /\ j.id = join[c].id
      BY <1>j DEF JoinStages
    <3>2. /\ join' = [join EXCEPT ![c] = j] /\ google' = join[c].id /\ exists'
          /\ pc[c] = "new" /\ pc' = [pc EXCEPT ![c] = "read"] /\ google = None
          /\ UNCHANGED <<epoch, linker, session>>
      BY <1>5, <1>t, <2>2 DEF CreateUser, Joining, Admitted, IdentitiesMatch
    <3> HIDE DEF j
    <3>3. AccountTypes'
      BY <1>5, <1>t, <1>c, <1>j, <2>2, <3>1, <3>2 DEF AccountTypes, CreateUser
    <3>4. IdentitiesMatch'
      BY <1>t, <1>j, <3>1, <3>2 DEF AccountTypes, IdentitiesMatch
    <3>5. AdmittedIsLinked' /\ SessionsWereOpened'
      BY <1>t, <1>c, <1>j, <3>1, <3>2
         DEF AccountTypes, AdmittedIsLinked, SessionsWereOpened
    <3> QED  BY <3>3, <3>4, <3>5 DEF AccountInv
  <2> QED  BY <2>1, <2>2
<1>6. ASSUME NEW c \in Logins, StoreCode(c) \/ ExchangeCode(c) \/ CodeExpires(c)
      PROVE  AccountInv'
  BY <1>6, <1>t DEF StoreCode, ExchangeCode, CodeExpires, vars, sessionVars, passwordVars,
     AccountInv, AccountTypes, IdentitiesMatch, AdmittedIsLinked, SessionsWereOpened
<1>7. ASSUME NEW k \in Links, NEW g \in Identities, LinkReads(k, g) PROVE AccountInv'
  <2>1. UNCHANGED <<exists, google, epoch, join, session, pc>> /\ exists
    BY <1>7 DEF LinkReads, vars, sessionVars, passwordVars
  <2>2. \E l \in [at : {"new", "write", "done"}, id : Ids] :
          /\ linker' = [linker EXCEPT ![k] = l]
          /\ l.at = "write" => l.id # None /\ Mail[l.id]
    <3> DEFINE ok == google = None /\ g \notin Elsewhere /\ Mail[g]
               l == IF ok THEN [at |-> "write", id |-> g] ELSE [at |-> "done", id |-> None]
    <3>1. linker' = [linker EXCEPT ![k] = l]
      BY <1>7 DEF LinkReads
    <3>2. l \in [at : {"new", "write", "done"}, id : Ids]
      BY DEF Ids
    <3>3. l.at = "write" => l.id # None /\ Mail[l.id]
      BY <1>n
    <3> HIDE DEF l
    <3> QED  BY <3>1, <3>2, <3>3
  <2> QED
    BY <1>t, <2>1, <2>2
       DEF AccountInv, AccountTypes, IdentitiesMatch, AdmittedIsLinked, SessionsWereOpened
<1>8. ASSUME NEW k \in Links, LinkWrites(k) PROVE AccountInv'
  <2>1. UNCHANGED <<exists, epoch, join, session, pc>>
    BY <1>8 DEF LinkWrites, vars, sessionVars, passwordVars
  <2>2. /\ google' = linker[k].id /\ google' \in Ids
        /\ exists /\ google' # None /\ Mail[google']
    BY <1>8, <1>t DEF LinkWrites, AccountTypes, IdentitiesMatch
  <2>3. google # None => google' = google
    BY <1>n, <1>t, <2>2, IdentityAssumption DEF AccountTypes, IdentitiesMatch, Ids
  <2>4. AccountTypes' /\ IdentitiesMatch'
    BY <1>8, <1>t, <2>1, <2>2 DEF LinkWrites, AccountTypes, IdentitiesMatch, Ids
  <2>5. AdmittedIsLinked' /\ SessionsWereOpened'
    BY <1>t, <2>1, <2>3 DEF AdmittedIsLinked, SessionsWereOpened
  <2> QED  BY <2>4, <2>5 DEF AccountInv
<1>9. CASE UNCHANGED allVars
  BY <1>9, <1>t DEF allVars, vars, accountVars, sessionVars, passwordVars,
     AccountInv, AccountTypes, IdentitiesMatch, AdmittedIsLinked, SessionsWereOpened
<1> QED
  BY <1>1, <1>2, <1>3, <1>4, <1>5, <1>6, <1>7, <1>8, <1>9 DEF AccountNext

LEMMA AccountInvHolds == AccountSpec => []AccountInv
BY AccountInitOK, AccountNextOK, PTL DEF AccountSpec

-----------------------------------------------------------------------------
(* Whatever registrations, logins and link calls overlap, a Google identity *)
(* that User.googleId holds stays.                                          *)
THEOREM GoogleNeverReplaced == AccountSpec => GoogleIsFinal
<1>1. ASSUME AccountInv, [AccountNext]_allVars, google # None PROVE google' = google
  <2>1. ASSUME NEW k \in Links, LinkWrites(k) PROVE google' = google
    <3>1. google' = linker[k].id /\ google' \in Ids /\ google' # None /\ Mail[google']
      BY <1>1, <2>1 DEF LinkWrites, AccountInv, AccountTypes, IdentitiesMatch
    <3> QED
      BY <1>1, <3>1, IdentityAssumption
         DEF AccountInv, AccountTypes, IdentitiesMatch, Ids
  <2>2. ASSUME NEW c \in Logins, CreateUser(c) PROVE google' = google
    BY <1>1, <2>2 DEF CreateUser, AccountInv, IdentitiesMatch
  <2>3. \/ UNCHANGED google
        \/ \E k \in Links : LinkWrites(k)
        \/ \E c \in Logins : CreateUser(c)
    BY <1>1 DEF AccountNext, allVars, accountVars, Sessions, Register, GoogleStarts,
       GoogleLoginById, GoogleLoginByMail, GoogleRegisterById, GoogleRegisterByMail,
       StoreCode, ExchangeCode, CodeExpires, LinkReads
  <2> QED  BY <2>1, <2>2, <2>3
<1>2. AccountInv /\ [AccountNext]_allVars => [google # None => google' = google]_allVars
  BY <1>1
<1> QED  BY <1>2, AccountInvHolds, PTL DEF AccountSpec, GoogleIsFinal

(* A session that a Google login opened is on the account its identity is  *)
(* linked to, now and for as long as the session exists.                   *)
THEOREM SessionsOfLinkedGoogle == AccountSpec => []OnlyLinkedGoogleOpens
<1>1. AccountInv => OnlyLinkedGoogleOpens
  BY DEF AccountInv, AdmittedIsLinked, SessionsWereOpened, OnlyLinkedGoogleOpens
<1> QED  BY <1>1, AccountInvHolds, PTL

(* Of all the calls that found the address free one creates the account,   *)
(* with the bonus; later the password moves only with its epoch.           *)
THEOREM AccountCreatedOnce == AccountSpec => CreatedOnce
<1>1. ASSUME AccountInv, [AccountNext]_allVars, exists
      PROVE  bonus' = bonus /\ (password' # password => epoch' > epoch)
  <2>1. CASE Sessions
    BY <1>1, <2>1, SessionsFrame DEF AccountInv, LoginsGoOn, accountVars
  <2>2. ASSUME NEW c \in Logins, CreateUser(c) PROVE UNCHANGED <<bonus, password>>
    BY <1>1, <2>2 DEF CreateUser, passwordVars
  <2>3. Sessions \/ (\E c \in Logins : CreateUser(c)) \/ UNCHANGED <<bonus, password>>
    BY <1>1 DEF AccountNext, allVars, vars, accountVars, passwordVars, Register,
       GoogleStarts, GoogleLoginById, GoogleLoginByMail, GoogleRegisterById,
       GoogleRegisterByMail, StoreCode, ExchangeCode, CodeExpires, LinkReads, LinkWrites
  <2> QED  BY <2>1, <2>2, <2>3
<1>2. AccountInv /\ [AccountNext]_allVars
        => [exists => bonus' = bonus /\ (password' # password => epoch' > epoch)]_allVars
  BY <1>1
<1> QED  BY <1>2, AccountInvHolds, PTL DEF AccountSpec, CreatedOnce
-----------------------------------------------------------------------------
(* The credentials, under the calls that make accounts and link identities. *)

(* A step of Accounts is one of AuthSessions, or admits a login to an       *)
(* account whose sessions, links and change count it leaves alone.          *)
LEMMA CredentialMoves ==
    ASSUME AuthInv, [AccountNext]_allVars
    PROVE  \/ [Next]_vars
           \/ /\ \E c \in Logins :
                   pc[c] = "new" /\ \E s \in {"read", "failed"} : pc' = [pc EXCEPT ![c] = s]
              /\ openedAt' \in [Logins -> Nat]
              /\ UNCHANGED <<session, lapsed, linkVars, on, epoch, changed>>
<1> USE DEF Refused, Moved, Admitted, Joining, sessionVars, linkVars, passwordVars
<1>0. openedAt \in [Logins -> Nat] /\ epoch \in Nat
  BY DEF AuthInv, AuthTypes
<1>1. CASE Sessions
  BY <1>1 DEF Sessions, Next
<1>2. ASSUME NEW c \in Logins,
             \/ Register(c) \/ GoogleLoginById(c) \/ GoogleLoginByMail(c)
             \/ GoogleRegisterById(c) \/ GoogleRegisterByMail(c) \/ CreateUser(c)
      PROVE  \/ UNCHANGED vars
             \/ /\ pc[c] = "new" /\ \E s \in {"read", "failed"} : pc' = [pc EXCEPT ![c] = s]
                /\ openedAt' \in [Logins -> Nat]
                /\ UNCHANGED <<session, lapsed, linkVars, on, epoch, changed>>
  BY <1>0, <1>2 DEF Register, GoogleLoginById, GoogleLoginByMail, GoogleRegisterById,
                    GoogleRegisterByMail, CreateUser, vars
<1>3. \/ Sessions \/ UNCHANGED vars
      \/ \E c \in Logins : \/ Register(c) \/ GoogleLoginById(c) \/ GoogleLoginByMail(c)
                            \/ GoogleRegisterById(c) \/ GoogleRegisterByMail(c)
                            \/ CreateUser(c)
  BY DEF AccountNext, allVars, GoogleStarts, StoreCode, ExchangeCode, CodeExpires,
         LinkReads, LinkWrites
<1> QED BY <1>1, <1>2, <1>3

LEMMA CredentialsHold == AccountSpec => []AuthInv
<1>1. AccountInit => AuthInv
  BY InitEstablishes DEF AccountInit
<1>2. AuthInv /\ [AccountNext]_allVars => AuthInv'
  <2>1. ASSUME AuthInv, NEW c \in Logins, NEW s \in {"read", "failed"}, pc[c] = "new",
               pc' = [pc EXCEPT ![c] = s], openedAt' \in [Logins -> Nat],
               UNCHANGED <<session, lapsed, linkVars, on, epoch, changed>>
        PROVE  AuthInv'
    BY <2>1 DEF AuthInv, AuthTypes, SessionNotYet, LinksAreFresh, linkVars, Calls
  <2> QED
    BY <2>1, CredentialMoves, TypeStep, SessionStep, LinkStep DEF AuthInv
<1> QED BY <1>1, <1>2, PTL DEF AccountSpec

(* Neither a registration nor a Google login brings a revoked session back. *)
THEOREM AccountSessionsStayRevoked == AccountSpec => RevokedStaysRevoked
<1>1. AuthInv /\ [AccountNext]_allVars
        => [\A s \in Logins : session[s] = "revoked" => session'[s] = "revoked"]_vars
  BY CredentialMoves, RevokedStep
<1> QED BY <1>1, CredentialsHold, PTL DEF AccountSpec, RevokedStaysRevoked

(* Nor do they let a reset through with a link from before the last change  *)
(* of the password.                                                         *)
THEOREM AccountOldLinksNeverReset == AccountSpec => LinkDiesWithChange
<1>1. ASSUME AuthInv, [AccountNext]_allVars, NEW f \in Forgots, uses'[f] > uses[f]
      PROVE  issuedAt[f] = changed
  <2>1. UNCHANGED uses => FALSE
    BY <1>1 DEF AuthInv, AuthTypes
  <2> QED BY <1>1, <2>1, CredentialMoves, ResetStep DEF linkVars
<1>2. AuthInv /\ [AccountNext]_allVars
        => [\A f \in Forgots : uses'[f] > uses[f] => issuedAt[f] = changed]_vars
  BY <1>1
<1> QED BY <1>2, CredentialsHold, PTL DEF AccountSpec, LinkDiesWithChange
=============================================================================
