------------------------------- MODULE SignIn -------------------------------
(***************************************************************************)
(* A device gets its credentials: auth_loop (main.py) logs in and cannot   *)
(* ask, the menu's dialog (control_menu.py) asks and cannot log in, and    *)
(* what they have between them is the environment of the process (auth.py) *)
(* and three events.  What was typed is written to .env (load_env.py) once *)
(* the server has accepted it, and never before.                           *)
(***************************************************************************)
EXTENDS Integers

CONSTANT MaxCuts            \* bound: power cuts

VARIABLES
    kept,       \* the credentials in .env
    env,        \* the credentials in this process
    sent,       \* those in a thread's hands: of the login, then of the write
    unsaved,    \* auth._unsaved: typed, and not written yet
    needed,     \* state.credentials_needed
    ready,      \* state.credentials_ready
    authenticated,
    auth,       \* where auth_loop is
    dialog,     \* where the menu is
    asked,      \* control_menu._credentials_asked
    cuts

events     == <<needed, ready, authenticated>>
signInVars == <<kept, env, sent, unsaved, events, auth, dialog, asked, cuts>>

None == "none"              \* none; "good" are the server's, "bad" are not

SignInInit ==
    /\ kept \in {None, "good", "bad"} /\ env = kept /\ sent = None
    /\ unsaved = FALSE /\ needed = FALSE /\ ready = FALSE /\ authenticated = FALSE
    /\ auth = "login" /\ dialog = "menu" /\ asked = FALSE /\ cuts = 0

(* ------------------------------- auth_loop ----------------------------- *)

(* Nothing to log in with: raise a hand, and wait.                         *)
AskOperator ==
    /\ auth = "login" /\ env = None
    /\ auth' = "waiting" /\ ready' = FALSE /\ needed' = TRUE
    /\ UNCHANGED <<kept, env, sent, unsaved, authenticated, dialog, asked, cuts>>

Login ==
    /\ auth = "login" /\ env # None
    /\ auth' = "asking" /\ sent' = env
    /\ UNCHANGED <<kept, env, unsaved, events, dialog, asked, cuts>>

(* wait_credentials(): the event is still set when its waiter is resumed,  *)
(* who was woken before the dialog was: see HearRefused.                   *)
WakeUp ==
    /\ auth = "waiting" /\ ready
    /\ auth' = "login"
    /\ UNCHANGED <<kept, env, sent, unsaved, events, dialog, asked, cuts>>

(* Proven, so now it is worth keeping: what is in the environment now.     *)
Accepted ==
    /\ auth = "asking" /\ sent = "good"
    /\ authenticated' = TRUE /\ needed' = FALSE /\ sent' = env
    /\ auth' = IF unsaved THEN "saving" ELSE "returned"
    /\ UNCHANGED <<kept, env, unsaved, ready, dialog, asked, cuts>>

(* Slips for MayForget: what was typed is kept trying; what was refused    *)
(* is forgotten, wherever it is from.                                      *)
ForgetNothing == FALSE
ForgetAny == TRUE

(* forget_credentials() is for what was typed here and not saved.          *)
MayForget == unsaved

Refused ==
    /\ auth = "asking" /\ sent = "bad"
    /\ IF MayForget
       THEN env' = None /\ unsaved' = FALSE /\ authenticated' = FALSE /\ auth' = "login"
       ELSE auth' = "backoff" /\ UNCHANGED <<env, unsaved, authenticated>>
    /\ UNCHANGED <<kept, sent, needed, ready, dialog, asked, cuts>>

(* No server, or an answer that is none.                                   *)
Unreachable ==
    /\ auth = "asking"
    /\ auth' = "backoff"
    /\ UNCHANGED <<kept, env, sent, unsaved, events, dialog, asked, cuts>>

(* Anything that is not an AuthError ends the task; supervise() starts it  *)
(* again after a pause.                                                    *)
TaskDies ==
    /\ auth = "asking"
    /\ auth' = "dead"
    /\ UNCHANGED <<kept, env, sent, unsaved, events, dialog, asked, cuts>>

Supervise ==
    /\ auth = "dead"
    /\ auth' = "login"
    /\ UNCHANGED <<kept, env, sent, unsaved, events, dialog, asked, cuts>>

Retry ==
    /\ auth = "backoff"
    /\ auth' = "login"
    /\ UNCHANGED <<kept, env, sent, unsaved, events, dialog, asked, cuts>>

(* save_credentials(): .env is written whole, to a file beside it that is  *)
(* then renamed, or not at all.                                            *)
SaveCredentials ==
    /\ auth = "saving" /\ auth' = "returned"
    /\ kept' = sent /\ unsaved' = FALSE
    /\ UNCHANGED <<env, sent, events, dialog, asked, cuts>>

SaveFails ==
    /\ auth = "saving" /\ auth' = "returned"
    /\ UNCHANGED <<kept, env, sent, unsaved, events, dialog, asked, cuts>>

(* ------------------------------ the dialog ----------------------------- *)

CredentialsWanted == needed \/ (env = None /\ ~asked)

OpenSignIn ==
    /\ dialog = "menu" /\ CredentialsWanted
    /\ dialog' = "intro" /\ asked' = TRUE
    /\ UNCHANGED <<kept, env, sent, unsaved, events, auth, cuts>>

(* Whatever was said before this attempt is of no account.                 *)
StartTyping ==
    /\ dialog \in {"intro", "refused", "unusable"}
    /\ dialog' = "typing" /\ needed' = FALSE /\ ready' = FALSE
    /\ UNCHANGED <<kept, env, sent, unsaved, authenticated, auth, asked, cuts>>

Decline ==
    /\ dialog = "typing" /\ dialog' = "menu"
    /\ UNCHANGED <<kept, env, sent, unsaved, events, auth, asked, cuts>>

(* Not digits, or too many of them.                                        *)
TypeUnusable ==
    /\ dialog = "typing" /\ dialog' = "unusable"
    /\ UNCHANGED <<kept, env, sent, unsaved, events, auth, asked, cuts>>

(* set_credentials() for this run, and the word to auth_loop.              *)
TypeCredentials(typed) ==
    /\ dialog = "typing" /\ dialog' = "checking"
    /\ env' = typed /\ unsaved' = TRUE /\ ready' = TRUE
    /\ UNCHANGED <<kept, sent, needed, authenticated, auth, asked, cuts>>

(* _credential_outcome(): a session wins over a hand raised.               *)
HearAccepted ==
    /\ dialog = "checking" /\ authenticated
    /\ dialog' = "menu"
    /\ UNCHANGED <<kept, env, sent, unsaved, events, auth, asked, cuts>>

HearRefused ==
    /\ dialog = "checking" /\ ~authenticated /\ needed /\ ~(auth = "waiting" /\ ready)
    /\ dialog' = "refused"
    /\ UNCHANGED <<kept, env, sent, unsaved, events, auth, asked, cuts>>

(* 45 s without an answer: the rest happens in the background.             *)
HearNothing ==
    /\ dialog = "checking" /\ ~authenticated /\ ~needed
    /\ dialog' = "menu"
    /\ UNCHANGED <<kept, env, sent, unsaved, events, auth, asked, cuts>>

(* The power goes and comes back; the process reads .env.                  *)
PowerCut ==
    /\ cuts < MaxCuts /\ cuts' = cuts + 1
    /\ env' = kept /\ sent' = None /\ unsaved' = FALSE
    /\ needed' = FALSE /\ ready' = FALSE /\ authenticated' = FALSE
    /\ auth' = "login" /\ dialog' = "menu" /\ asked' = FALSE
    /\ UNCHANGED <<kept>>

AuthStep   == AskOperator \/ Login \/ WakeUp \/ Supervise \/ Retry \/ SaveCredentials \/ SaveFails
Answer     == Accepted \/ Refused
DialogStep == OpenSignIn \/ StartTyping \/ HearAccepted \/ HearRefused \/ HearNothing

SignInNext ==
    \/ AuthStep \/ Answer \/ Unreachable \/ TaskDies
    \/ DialogStep \/ Decline \/ TypeUnusable
    \/ \E typed \in {"good", "bad"} : TypeCredentials(typed)
    \/ PowerCut

SignInSpec == SignInInit /\ [][SignInNext]_signInVars

(* ------------------------------ properties ----------------------------- *)

(* auth.py, forget_credentials(): "Credentials already in .env are the     *)
(* operator's file and this does not get to delete them".  Whatever the    *)
(* server answers, and whenever the power goes, a device that was paired   *)
(* stays paired, and nobody is asked to type over what it has.             *)
PairedStaysPaired == [][kept # None => kept' = kept]_signInVars

(* What an operator enters ends in a session, or in front of the same      *)
(* question again: a typing error does not leave the device offline with   *)
(* nobody being told.                                                      *)
EntrySettles == (dialog = "checking") ~> (authenticated \/ dialog = "typing")
=============================================================================
