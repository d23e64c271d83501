------------------------------ MODULE GatewayLogin ------------------------------
(***************************************************************************)
(* Login of the gateway client (internal/gl/client/client_auth.go): a      *)
(* token is asked for with the session of the account; when Clerk refuses, *)
(* the client signs in anew by a link in the account's mailbox, stores the *)
(* new session and asks again.  Callers are requests and account tests,    *)
(* which may log in to one account at a time.                              *)
(*                                                                         *)
(* Clerk and the mailbox are external: live are the sessions Clerk honours *)
(* and mails the links that have arrived; a link makes a session of the    *)
(* sign-in it was sent for, and that session has the sign-in's number.     *)
(***************************************************************************)
EXTENDS PoolDatabase

CONSTANTS
  Caller,      \* whoever may be logging in
  Fault,       \* what may go wrong: see FaultAssumption
  MaxSignIns   \* bound: sign-ins of one behaviour

ASSUME FaultAssumption ==
  Fault \subseteq {"transport",  \* Clerk or the upstream cannot be reached
                   "mail",       \* a sign-in fails, or its mail is late
                   "store",      \* the database refuses a write
                   "forbidden",  \* Clerk refuses and says "forbidden" in its body
                   "forbidden chat"}  \* a completion fails so, with neither 401 nor 403

VARIABLES
  login,    \* what each caller's Login is doing
  gone,     \* callers whose context is cancelled
  live, mails, signIns

loginVars == <<login, gone, live, mails, signIns>>

NoLogin == [pc |-> "none", acct |-> NoText, session |-> NoSession, sid |-> 0, link |-> 0,
            text |-> NoText, held |-> NoSession]

Brought == {row.session : row \in Range(Imported)} \ {NoSession}

(* The sessions that the import brings are those of the first sign-ins. *)
ASSUME SignInAssumption ==
  MaxSignIns \in Nat /\ \E n \in 0 .. MaxSignIns : Brought = 1 .. n

LoginInit ==
  /\ login = [p \in Caller |-> NoLogin]
  /\ gone = {} /\ mails = {}
  /\ live = Brought
  /\ signIns = Cardinality(live)

LoginAt(p, pc) == login[p].pc = pc
Update(p, l) == login' = [login EXCEPT ![p] = l]
World == UNCHANGED <<gone, live, mails, signIns>>

(* Credentials that are not complete never leave the process. *)
BeginLogin(p, acct, session) ==
  Update(p, [NoLogin EXCEPT !.acct = acct, !.session = session, !.held = session,
                            !.pc = IF session = NoSession THEN "failed" ELSE "asking",
                            !.text = IF session = NoSession THEN "missing" ELSE NoText])

(* Any answer needs a context that still holds. *)
Hears(p, pc) == LoginAt(p, pc) /\ p \notin gone

TokenGranted(p) ==
  /\ Hears(p, "asking") /\ login[p].session \in live
  /\ Update(p, [login[p] EXCEPT !.pc = "granted"])
  /\ World /\ UNCHANGED tables

(* 401, 403 or signed_out: the body is what the caller hears if signing in fails. *)
TokenRefused(p) ==
  /\ Hears(p, "asking")
  /\ \E text \in {"refused"} \cup ({"forbidden"} \cap Fault) :
       /\ login[p].session \in live => text = "forbidden"
       /\ Update(p, [login[p] EXCEPT !.pc = "signing", !.text = text])
  /\ World /\ UNCHANGED tables

Fails(p, text) == Update(p, [login[p] EXCEPT !.pc = "failed", !.text = text])

(* A transport error, or the context's; the two are told apart by properties only. *)
AskFails(p) ==
  /\ LoginAt(p, "asking")
  /\ \/ p \in gone /\ Fails(p, "cancelled")
     \/ "transport" \in Fault /\ Fails(p, "transport")
  /\ World /\ UNCHANGED tables

(* sign_ins and prepare_first_factor: Clerk sends a mail. *)
SignInUncounted(p) ==  \* mutant: two sign-ins share a number
  /\ Hears(p, "signing") /\ signIns < MaxSignIns
  /\ Update(p, [login[p] EXCEPT !.pc = "mailing", !.sid = signIns + 1])
  /\ World /\ UNCHANGED tables
SignIn(p) ==
  /\ Hears(p, "signing") /\ signIns < MaxSignIns
  /\ signIns' = signIns + 1
  /\ Update(p, [login[p] EXCEPT !.pc = "mailing", !.sid = signIns + 1])
  /\ UNCHANGED <<gone, live, mails>> /\ UNCHANGED tables

MailArrives ==
  \E p \in Caller :
    /\ login[p].pc = "mailing"
    /\ LET mail == [acct |-> login[p].acct, sid |-> login[p].sid]
       IN mail \notin mails /\ mails' = mails \cup {mail}
    /\ UNCHANGED <<login, gone, live, signIns>> /\ UNCHANGED tables

(* magicLinkMatchesSignInID: links of other sign-ins stay in the mailbox. *)
AnyLink(mail, l) == TRUE  \* mutant: the first link will do
Matches(mail, l) == mail.sid = l.sid

FindLink(p) ==
  /\ Hears(p, "mailing")
  /\ \E mail \in mails : /\ mail.acct = login[p].acct /\ Matches(mail, login[p])
                         /\ Update(p, [login[p] EXCEPT !.pc = "activating", !.link = mail.sid])
  /\ World /\ UNCHANGED tables

(* The link is followed and the client's sessions are read.  A link of another  *)
(* sign-in leaves this client without a session.                                *)
Activate(p) ==
  /\ Hears(p, "activating")
  /\ live' = live \cup {login[p].link}
  /\ Update(p, IF login[p].link = login[p].sid
               THEN [login[p] EXCEPT !.pc = "storing", !.session = login[p].sid]
               ELSE [login[p] EXCEPT !.pc = "failed", !.text = "no session"])
  /\ UNCHANGED <<gone, mails, signIns>> /\ UNCHANGED tables

(* Whatever stops AutoLoginMagicLink, the caller hears the refusal it began with. *)
SignInFails(p) ==
  /\ login[p].pc \in {"signing", "mailing", "activating"}
  /\ \/ p \in gone /\ Fails(p, "cancelled")
     \/ "mail" \in Fault /\ Fails(p, login[p].text)
  /\ World /\ UNCHANGED tables

(* The session is stored before it is used, and Login starts over. *)
StoreCredentials(p) ==
  /\ Hears(p, "storing")
  /\ UpdateAccountClerkCredentials(login[p].acct, login[p].session)
  /\ Update(p, [login[p] EXCEPT !.pc = "asking"])
  /\ World

StoreFails(p) ==
  /\ LoginAt(p, "storing")
  /\ \/ p \in gone /\ Fails(p, "cancelled")
     \/ "store" \in Fault /\ Fails(p, "lost")
  /\ World /\ UNCHANGED tables

LoginStep(p) ==
  \/ TokenGranted(p) \/ TokenRefused(p) \/ AskFails(p) \/ SignIn(p) \/ FindLink(p)
  \/ Activate(p) \/ SignInFails(p) \/ StoreCredentials(p) \/ StoreFails(p)

(* Clerk ends a session. *)
Revoke == \E s \in live : live' = live \ {s} /\ UNCHANGED <<login, gone, mails, signIns>>
                          /\ UNCHANGED tables

(* Sessions that exist now or existed: they never exceed the bound. *)
LoginTypeOK ==
  /\ \A p \in Caller : login[p].pc \in {"none", "holding", "asking", "signing", "mailing", "activating",
                                        "storing", "granted", "failed"}
  /\ gone \subseteq Caller
  /\ live \subseteq 1..signIns /\ signIns \in 0..MaxSignIns
================================================================================
