------------------------------ MODULE Accounts ------------------------------
(***************************************************************************)
(* How the account of one email address comes to be and who may open a     *)
(* session on it: register, Google login and registration (by redirect or  *)
(* by id token), linking a Google identity and the one-time codes of the   *)
(* redirect flow (src/src/modules/auth/auth.service.ts).  It extends       *)
(* AuthSessions, whose calls need the account to exist.                    *)
(*                                                                         *)
(* Every check here is a read that a create or an update follows later;    *)
(* what is left when two calls pass the same check are the unique keys of  *)
(* User.email and User.googleId.                                           *)
(***************************************************************************)
EXTENDS AuthSessions

CONSTANTS
    Identities,  \* Google identities (the "sub" of a Google account)
    Mail,        \* [Identities -> BOOLEAN]: its email is that of the account
    Elsewhere,   \* identities linked to accounts of other addresses
    Links,       \* linkGoogleAccount calls
    MaxCalls,    \* bound: calls started
    None

ASSUME IdentityAssumption ==
    /\ Mail \in [Identities -> BOOLEAN] /\ Elsewhere \subseteq Identities
    /\ None \notin Identities
    (* Google gives an address to one identity.                            *)
    /\ \A g, h \in Identities : Mail[g] /\ Mail[h] => g = h

VARIABLES
    exists,  \* the User row of the address
    google,  \* its googleId
    bonus,   \* REGISTER_BONUS transactions of the address
    join,    \* join[c]: a login call that may create the account
    linker,  \* linker[k]: where a link call is, and its identity
    code     \* code[c]: the auth code of a redirect login in Redis

accountVars == <<exists, google, bonus, join, linker, code>>
allVars == <<vars, accountVars>>

NoJoin == [at |-> "none", intent |-> "login", id |-> None, secret |-> None]

(* What the signed state of the redirect, or the endpoint, asks for.       *)
Intents == {"login", "register"}

AccountInit ==
    /\ Init
    /\ exists \in BOOLEAN /\ google = None
    /\ bonus = IF exists THEN 1 ELSE 0
    /\ join = [c \in Logins |-> NoJoin]
    /\ linker = [k \in Links |-> [at |-> "new", id |-> None]]
    /\ code = [c \in Logins |-> "none"]

Started ==
    Cardinality({c \in Calls : pc[c] # "new"})
    + Cardinality({c \in Logins : pc[c] = "new" /\ join[c].at # "none"})
    + Cardinality({k \in Links : linker[k].at # "new"})

Starts == Started < MaxCalls

(* The session of a login call, once it may open one.                      *)
Admitted(c) ==
    /\ pc' = [pc EXCEPT ![c] = "read"]
    /\ openedAt' = [openedAt EXCEPT ![c] = epoch]
    /\ UNCHANGED <<session, lapsed, linkVars, on, choice>>

Refused(c) ==
    /\ pc' = [pc EXCEPT ![c] = "failed"]
    /\ UNCHANGED <<sessionVars, linkVars, on, choice>>

Moved(c, at) ==
    /\ join' = [join EXCEPT ![c].at = at]
    /\ UNCHANGED <<sessionVars, linkVars, pc, on, choice>>

Joining(c, at) == pc[c] = "new" /\ join[c].at = at

(***************************************************************************)
(* register, loginWithGoogle and registerWithGoogle.  An identity that is  *)
(* linked to another account logs in there, or cannot register.            *)
(***************************************************************************)
Register(c) ==
    /\ Starts /\ Joining(c, "none")
    /\ IF exists
         THEN Refused(c) /\ UNCHANGED join
         ELSE \E p \in Passwords :
                /\ join' = [join EXCEPT ![c] = [NoJoin EXCEPT !.at = "create", !.secret = p]]
                /\ UNCHANGED <<sessionVars, linkVars, pc, on, choice>>
    /\ UNCHANGED <<passwordVars, exists, google, bonus, linker, code>>

(* With one's own Google identity, for login or to register.  An identity  *)
(* with another address concerns this account only through its googleId.   *)
GoogleStarts(c, g) ==
    /\ Starts /\ Joining(c, "none") /\ g \notin Elsewhere
    /\ Mail[g] \/ google = g
    /\ \E intent \in Intents :
         join' = [join EXCEPT ![c] = [NoJoin EXCEPT
           !.at = IF intent = "login" THEN "loginById" ELSE "registerById",
           !.intent = intent, !.id = g]]
    /\ UNCHANGED <<vars, exists, google, bonus, linker, code>>

GoogleLoginById(c) ==
    /\ Joining(c, "loginById")
    /\ IF google = join[c].id THEN Admitted(c) /\ UNCHANGED join
                              ELSE Moved(c, "loginByMail")
    /\ UNCHANGED <<passwordVars, exists, google, bonus, linker, code>>

(* Mutant: an account with the address of the identity is good enough.     *)
GoogleLoginByMailMutant(c) ==
    /\ Joining(c, "loginByMail")
    /\ IF exists THEN Admitted(c) /\ UNCHANGED join
                 ELSE Moved(c, "registerById")
    /\ UNCHANGED <<passwordVars, exists, google, bonus, linker, code>>

GoogleLoginByMail(c) ==
    /\ Joining(c, "loginByMail")
    /\ IF exists THEN Refused(c) /\ UNCHANGED join
                 ELSE Moved(c, "registerById")
    /\ UNCHANGED <<passwordVars, exists, google, bonus, linker, code>>

GoogleRegisterById(c) ==
    /\ Joining(c, "registerById")
    /\ IF google = join[c].id THEN Refused(c) /\ UNCHANGED join
                              ELSE Moved(c, "registerByMail")
    /\ UNCHANGED <<passwordVars, exists, google, bonus, linker, code>>

GoogleRegisterByMail(c) ==
    /\ Joining(c, "registerByMail")
    /\ IF exists THEN Refused(c) /\ UNCHANGED join
                 ELSE Moved(c, "create")
    /\ UNCHANGED <<passwordVars, exists, google, bonus, linker, code>>

(* user.create with its credits and bonus; the password of a Google        *)
(* account is random, and nobody's.                                        *)
(* Mutant: the row is upserted.                                            *)
CreateUserMutant(c) ==
    /\ Joining(c, "create")
    /\ exists' = TRUE /\ bonus' = bonus + 1
    /\ google' = IF join[c].id = None THEN google ELSE join[c].id
    /\ password' = join[c].secret
    /\ UNCHANGED <<epoch, changed, linker, code>>
    /\ join' = [join EXCEPT ![c].at = "created"]
    /\ Admitted(c)

CreateUser(c) ==
    /\ Joining(c, "create")
    /\ IF exists
         THEN Refused(c) /\ UNCHANGED <<passwordVars, exists, google, bonus, join>>
         ELSE /\ exists' = TRUE /\ bonus' = bonus + 1
              /\ google' = join[c].id
              /\ password' = join[c].secret
              /\ join' = [join EXCEPT ![c].at = "created"]
              /\ Admitted(c)
              /\ UNCHANGED <<epoch, changed>>
    /\ UNCHANGED <<linker, code>>

(***************************************************************************)
(* The callback of the redirect flow puts the tokens in Redis under a code *)
(* (SET NX EX), and exchange-code takes them out with one script.          *)
(***************************************************************************)
StoreCode(c) ==
    /\ pc[c] = "done" /\ join[c].id # None /\ code[c] = "none"
    /\ code' = [code EXCEPT ![c] = "stored"]
    /\ UNCHANGED <<vars, exists, google, bonus, join, linker>>

ExchangeCode(c) ==
    /\ code[c] = "stored"
    /\ code' = [code EXCEPT ![c] = "given"]
    /\ UNCHANGED <<vars, exists, google, bonus, join, linker>>

CodeExpires(c) ==
    /\ code[c] = "stored"
    /\ code' = [code EXCEPT ![c] = "gone"]
    /\ UNCHANGED <<vars, exists, google, bonus, join, linker>>

(***************************************************************************)
(* linkGoogleAccount, by a user who is logged in: the checks, then the     *)
(* update.                                                                 *)
(***************************************************************************)
(* Mutant: any Google identity may be linked.                              *)
LinkReadsMutant(k, g) ==
    /\ Starts /\ exists /\ linker[k].at = "new"
    /\ linker' = [linker EXCEPT ![k] =
         IF google = None /\ g \notin Elsewhere
           THEN [at |-> "write", id |-> g] ELSE [at |-> "done", id |-> None]]
    /\ UNCHANGED <<vars, exists, google, bonus, join, code>>

LinkReads(k, g) ==
    /\ Starts /\ exists /\ linker[k].at = "new"
    /\ linker' = [linker EXCEPT ![k] =
         IF google = None /\ g \notin Elsewhere /\ Mail[g]
           THEN [at |-> "write", id |-> g] ELSE [at |-> "done", id |-> None]]
    /\ UNCHANGED <<vars, exists, google, bonus, join, code>>

LinkWrites(k) ==
    /\ linker[k].at = "write"
    /\ google' = linker[k].id
    /\ linker' = [linker EXCEPT ![k] = [at |-> "done", id |-> None]]
    /\ UNCHANGED <<vars, exists, bonus, join, code>>

(***************************************************************************)
(* The calls of AuthSessions.  Nobody knows the password of an account     *)
(* that Google made, until a reset sets one.                               *)
(***************************************************************************)
Sessions ==
    /\ exists /\ UNCHANGED accountVars
    /\ \/ /\ Starts
          /\ \/ /\ password # None
                /\ \/ \E c \in Logins : join[c].at = "none" /\ LoginReads(c)
                   \/ \E c \in Changes : ChangeReads(c)
             \/ \E c \in Refreshes : RefreshReads(c)
             \/ \E c \in Forgots : ForgotDeletes(c)
             \/ \E c \in Resets : ResetReads(c)
       \/ \E c \in Logins : LoginOpens(c) \/ Logout(c) \/ SessionLapses(c)
       \/ LogoutAll
       \/ \E c \in Refreshes : RefreshWrites(c)
       \/ \E c \in Forgots : ForgotCommits(c) \/ LinkLapses(c)
       \/ \E c \in Resets : ResetCommits(c)
       \/ \E c \in Changes : ChangeCommits(c)

AccountNext ==
    \/ Sessions
    \/ \E c \in Logins :
         \/ Register(c)
         \/ \E g \in Identities : GoogleStarts(c, g)
         \/ GoogleLoginById(c) \/ GoogleLoginByMail(c)
         \/ GoogleRegisterById(c) \/ GoogleRegisterByMail(c)
         \/ CreateUser(c)
         \/ StoreCode(c) \/ ExchangeCode(c) \/ CodeExpires(c)
    \/ \E k \in Links :
         \/ \E g \in Identities : LinkReads(k, g)
         \/ LinkWrites(k)

AccountSpec == AccountInit /\ [][AccountNext]_allVars

-----------------------------------------------------------------------------
(* However many calls found the address free, the account is created once  *)
(* and its bonus granted once; after that only a reset or a change sets    *)
(* its password.                                                           *)
CreatedOnce ==
    [][exists => bonus' = bonus /\ (password' # password => epoch' > epoch)]_allVars

(* The Google identity of an account never changes, though link calls      *)
(* check it long before they write it.                                     *)
GoogleIsFinal == [][google # None => google' = google]_allVars

(* A Google identity opens a session only on the account it is linked to,  *)
(* never on the one that merely has its address.                           *)
OnlyLinkedGoogleOpens ==
    \A c \in Logins : join[c].id # None /\ session[c] # "none" => google = join[c].id

(* Whoever logs in with Google on a free address gets in: the account is   *)
(* made, and the login goes on.                                            *)
GoogleLoginGetsIn ==
    [][\A c \in Logins :
         pc[c] = "new" /\ pc'[c] = "failed" /\ join[c].id # None /\ join[c].intent = "login"
         => google # join[c].id]_allVars
=============================================================================
