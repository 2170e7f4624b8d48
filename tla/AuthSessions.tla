----------------------------- MODULE AuthSessions -----------------------------
(***************************************************************************)
(* The credentials of one account: its password, its refresh sessions and  *)
(* its password reset links, under concurrent calls of AuthService (login, *)
(* refreshTokens, logout, logoutAll, forgotPassword, resetPassword and     *)
(* changePassword).  Rows of different accounts never meet.                *)
(*                                                                         *)
(* A call reads, awaits bcrypt and then writes, so each is two steps.  The *)
(* writing transactions of resetPassword and changePassword first lock the *)
(* user row and are one step each; the one of forgotPassword locks nothing *)
(* that two calls share, so its DELETE and its commit are two.             *)
(*                                                                         *)
(* A session is named after the login that opens it and a link after the   *)
(* forgotPassword call that makes it.  The refresh tokens of a session are *)
(* not told apart: bcrypt compares their first 72 bytes, which hold the    *)
(* JWT header and the start of the user's id.                              *)
(***************************************************************************)
EXTENDS Naturals, FiniteSets

CONSTANTS
    Logins,      \* login calls, and the sessions they open
    Refreshes,   \* refreshTokens calls
    Forgots,     \* forgotPassword calls, and the reset links they make
    Resets,      \* resetPassword calls
    Changes,     \* changePassword calls
    Passwords

Calls == Logins \cup Refreshes \cup Forgots \cup Resets \cup Changes

ASSUME AccountAssumption == Logins # {}
ASSUME CallsAssumption ==
    /\ Logins \cap (Refreshes \cup Forgots \cup Resets \cup Changes) = {}
    /\ Refreshes \cap (Forgots \cup Resets \cup Changes) = {}
    /\ Forgots \cap (Resets \cup Changes) = {}
    /\ Resets \cap Changes = {}

VARIABLES
    password,   \* the user's password
    session,    \* [Logins -> SessionState]: revokedAt of the refresh sessions
    lapsed,     \* subset of Logins: sessions whose expiresAt has passed
    link,       \* [Forgots -> LinkState]: the password reset tokens
    dead,       \* subset of Forgots: links whose expiresAt has passed
    pc,         \* [Calls -> {"new", "read", "done", "failed"}]
    on,         \* [Refreshes -> Logins], [Resets -> Forgots]: what they found
    choice,     \* [Resets \cup Changes -> Passwords]: the new password
    doomed,     \* [Forgots -> SUBSET Forgots]: what the DELETE will remove
    epoch,      \* how often the password was set, and
    changed,    \* how often by changePassword
    openedAt,   \* [Logins -> Nat]: epoch of the password that was verified
    issuedAt,   \* [Forgots -> Nat]: "changed" when the link was committed
    uses        \* [Forgots -> Nat]: resets done with the link

sessionVars == <<session, lapsed, openedAt>>
linkVars == <<link, dead, doomed, issuedAt, uses>>
passwordVars == <<password, epoch, changed>>
vars == <<sessionVars, linkVars, passwordVars, pc, on, choice>>

SessionState == {"none", "live", "revoked"}
LinkState == {"none", "active", "used", "deleted"}

TypeOK ==
    /\ password \in Passwords
    /\ session \in [Logins -> SessionState] /\ lapsed \subseteq Logins
    /\ link \in [Forgots -> LinkState] /\ dead \subseteq Forgots
    /\ pc \in [Calls -> {"new", "read", "done", "failed"}]
    /\ on \in [Refreshes \cup Resets -> Logins \cup Forgots]
    /\ choice \in [Resets \cup Changes -> Passwords]
    /\ doomed \in [Forgots -> SUBSET Forgots]
    /\ epoch \in Nat /\ changed \in Nat
    /\ openedAt \in [Logins -> Nat]
    /\ issuedAt \in [Forgots -> Nat] /\ uses \in [Forgots -> Nat]

Init ==
    /\ password \in Passwords
    /\ session = [s \in Logins |-> "none"] /\ lapsed = {}
    /\ link = [f \in Forgots |-> "none"] /\ dead = {}
    /\ pc = [c \in Calls |-> "new"]
    /\ on = [c \in Refreshes \cup Resets |-> CHOOSE x \in Logins \cup Forgots : TRUE]
    /\ choice = [c \in Resets \cup Changes |-> password]
    /\ doomed = [f \in Forgots |-> {}]
    /\ epoch = 0 /\ changed = 0
    /\ openedAt = [s \in Logins |-> 0]
    /\ issuedAt = [f \in Forgots |-> 0] /\ uses = [f \in Forgots |-> 0]

Step(c, from, to) == pc[c] = from /\ pc' = [pc EXCEPT ![c] = to]

(* updateMany where revokedAt is null: every session there is. *)
RevokeAll == session' = [s \in Logins |-> IF session[s] = "live" THEN "revoked" ELSE session[s]]

----------------------------------------------------------------------------
(* Sessions.                                                                *)

(* login reads the user and verifies the password it was given ... *)
LoginReads(c) ==
    /\ Step(c, "new", "read")
    /\ openedAt' = [openedAt EXCEPT ![c] = epoch]
    /\ UNCHANGED <<session, lapsed, linkVars, passwordVars, on, choice>>

(* ... and issueTokenPair creates the session. *)
LoginOpens(c) ==
    /\ Step(c, "read", "done")
    /\ session' = [session EXCEPT ![c] = "live"]
    /\ UNCHANGED <<lapsed, openedAt, linkVars, passwordVars, on, choice>>

RefreshReads(c) ==
    /\ Step(c, "new", "read")
    /\ \E s \in Logins :
          /\ session[s] = "live" /\ s \notin lapsed
          /\ on' = [on EXCEPT ![c] = s]
    /\ UNCHANGED <<sessionVars, linkVars, passwordVars, choice>>

(* Mutant: the renewed row is written whole, as a session in use. *)
RefreshWritesMutant(c) ==
    /\ Step(c, "read", "done")
    /\ lapsed' = lapsed \ {on[c]}
    /\ session' = [session EXCEPT ![on[c]] = "live"]
    /\ UNCHANGED <<openedAt, linkVars, passwordVars, on, choice>>

(* hashedToken, expiresAt and lastUsedAt are renewed, revokedAt is not.      *)
RefreshWrites(c) ==
    /\ Step(c, "read", "done")
    /\ lapsed' = lapsed \ {on[c]}
    /\ UNCHANGED <<session, openedAt, linkVars, passwordVars, on, choice>>

(* logout revokes the session of a token that has not expired, which it may  *)
(* already be.                                                               *)
Logout(s) ==
    /\ session[s] # "none" /\ s \notin lapsed
    /\ session' = [session EXCEPT ![s] = "revoked"]
    /\ UNCHANGED <<lapsed, openedAt, linkVars, passwordVars, pc, on, choice>>

LogoutAll ==
    /\ RevokeAll
    /\ UNCHANGED <<lapsed, openedAt, linkVars, passwordVars, pc, on, choice>>

SessionLapses(s) ==
    /\ session[s] # "none" /\ s \notin lapsed
    /\ lapsed' = lapsed \cup {s}
    /\ UNCHANGED <<session, openedAt, linkVars, passwordVars, pc, on, choice>>

----------------------------------------------------------------------------
(* Passwords and reset links.                                               *)

Rows == {f \in Forgots : link[f] \in {"active", "used"}}

(* deleteMany of the user's links: those it sees now. *)
ForgotDeletes(c) ==
    /\ Step(c, "new", "read")
    /\ doomed' = [doomed EXCEPT ![c] = Rows]
    /\ UNCHANGED <<sessionVars, link, dead, issuedAt, uses, passwordVars, on, choice>>

ForgotCommits(c) ==
    /\ Step(c, "read", "done")
    /\ link' = [f \in Forgots |-> CASE f = c -> "active"
                                    [] f \in doomed[c] -> "deleted"
                                    [] OTHER -> link[f]]
    /\ issuedAt' = [issuedAt EXCEPT ![c] = changed]
    /\ doomed' = [doomed EXCEPT ![c] = {}]
    /\ UNCHANGED <<sessionVars, dead, uses, passwordVars, on, choice>>

LinkLapses(f) ==
    /\ link[f] = "active" /\ f \notin dead
    /\ dead' = dead \cup {f}
    /\ UNCHANGED <<sessionVars, link, doomed, issuedAt, uses, passwordVars, pc, on, choice>>

(* resetPassword finds the link unused and unexpired, and the new password   *)
(* different from the current one.                                           *)
ResetReads(c) ==
    /\ Step(c, "new", "read")
    /\ \E f \in Forgots, p \in Passwords :
          /\ link[f] = "active" /\ f \notin dead
          /\ p # password
          /\ on' = [on EXCEPT ![c] = f]
          /\ choice' = [choice EXCEPT ![c] = p]
    /\ UNCHANGED <<sessionVars, linkVars, passwordVars>>

SetPassword(p) == password' = p /\ epoch' = epoch + 1 /\ RevokeAll

(* Mutant: the link is marked with an updateMany, which may match no row. *)
ResetCommitsMutant(c) ==
    /\ \A f \in Forgots : on[c] \notin doomed[f]
    /\ SetPassword(choice[c])
    /\ link' = [link EXCEPT ![on[c]] = IF on[c] \in Rows THEN "used" ELSE @]
    /\ uses' = [uses EXCEPT ![on[c]] = @ + 1]
    /\ Step(c, "read", "done")
    /\ UNCHANGED <<lapsed, openedAt, dead, doomed, issuedAt, changed, on, choice>>

(* Its transaction: the password, the sessions, and usedAt of the link, which *)
(* waits for a DELETE of the link in progress and fails if the link is gone.  *)
ResetCommits(c) ==
    /\ \A f \in Forgots : on[c] \notin doomed[f]
    /\ IF on[c] \in Rows
       THEN /\ SetPassword(choice[c])
            /\ link' = [link EXCEPT ![on[c]] = "used"]
            /\ uses' = [uses EXCEPT ![on[c]] = @ + 1]
            /\ Step(c, "read", "done")
       ELSE /\ Step(c, "read", "failed")
            /\ UNCHANGED <<password, epoch, session, link, uses>>
    /\ UNCHANGED <<lapsed, openedAt, dead, doomed, issuedAt, changed, on, choice>>

(* changePassword verifies the old password and that the new one differs ... *)
ChangeReads(c) ==
    /\ Step(c, "new", "read")
    /\ \E p \in Passwords \ {password} : choice' = [choice EXCEPT ![c] = p]
    /\ UNCHANGED <<sessionVars, linkVars, passwordVars, on>>

(* ... then sets it, revokes the sessions and deletes the links. *)
ChangeCommits(c) ==
    /\ Step(c, "read", "done")
    /\ SetPassword(choice[c])
    /\ changed' = changed + 1
    /\ link' = [f \in Forgots |-> IF f \in Rows THEN "deleted" ELSE link[f]]
    /\ UNCHANGED <<lapsed, openedAt, dead, doomed, issuedAt, uses, on, choice>>

Next ==
    \/ \E c \in Logins : LoginReads(c) \/ LoginOpens(c)
    \/ \E c \in Refreshes : RefreshReads(c) \/ RefreshWrites(c)
    \/ \E s \in Logins : Logout(s) \/ SessionLapses(s)
    \/ LogoutAll
    \/ \E c \in Forgots : ForgotDeletes(c) \/ ForgotCommits(c) \/ LinkLapses(c)
    \/ \E c \in Resets : ResetReads(c) \/ ResetCommits(c)
    \/ \E c \in Changes : ChangeReads(c) \/ ChangeCommits(c)

Spec == Init /\ [][Next]_vars

----------------------------------------------------------------------------
(* Properties.                                                              *)

(* A reset never goes through with a link from before the last change of the *)
(* password, even if the call had validated the link before that change.     *)
LinkDiesWithChange ==
    [][\A f \in Forgots : uses'[f] > uses[f] => issuedAt[f] = changed]_vars

(* A session that was revoked stays so: a refresh that read it before the    *)
(* logout does not bring it back.                                            *)
RevokedStaysRevoked ==
    [][\A s \in Logins : session[s] = "revoked" => session'[s] = "revoked"]_vars

(* Sessions opened with an earlier password are invalid. *)
OldSessionsAreInvalid ==
    \A s \in Logins : session[s] = "live" => openedAt[s] = epoch

(* A reset link works once. *)
LinkIsOneTime == \A f \in Forgots : uses[f] <= 1

(* At most one link of the user is active. *)
OneActiveLink == Cardinality({f \in Forgots : link[f] = "active"}) <= 1
=============================================================================
