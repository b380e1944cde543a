---------------------------- MODULE PasswordReset ----------------------------
(***************************************************************************)
(* The "forgot password" dialog of the sign-in page and the three calls it *)
(* chains: a one-time code is mailed, exchanged for a reset token, and the *)
(* token buys a new password.  It is a native <dialog>: closing it sends a *)
(* "close" event, whose handler is the one of the cross and of Escape too. *)
(* The handler clears the dialog 200 ms later; calls under way are not     *)
(* cleared with it.                                                        *)
(***************************************************************************)
EXTENDS Naturals

CONSTANTS Accounts,   \* e-mail addresses with an account
          NoAccount,  \* an address without one; the empty one cannot be sent and is left out
          MaxCodes,   \* bound on the codes generated
          MaxCloses   \* bound on the times the dialog is closed

ASSUME PasswordResetAssumption ==
  NoAccount \notin Accounts /\ MaxCodes \in Nat /\ MaxCloses \in Nat \ {0}

VARIABLES
  code,    \* Redis: the code of each account, 0 when there is none
  codes,   \* number of codes generated, and mailed, so far
  open,    \* is the dialog open?
  closes,  \* number of times it was closed
  closing, \* "close" events on their way
  due,     \* timers that will clear it
  step, email, token,    \* its state; a token is known by its account
  send, verify, submit,  \* its three calls; each button is disabled while its own is pending
  changed, \* history: the passwords set: the account, the address in the dialog
  late     \* history: a token arrived after the dialog was cleared and another
           \* address typed

resetVars == <<code, codes, open, closes, closing, due, step, email, token, send, verify, submit,
               changed, late>>

Address == Accounts \cup {NoAccount}
NoCall  == [st |-> "none", to |-> NoAccount, val |-> 0, shown |-> NoAccount]
\* A call is made with what the dialog holds at the click.
NewCall(to, val) == [st |-> "asked", to |-> to, val |-> val, shown |-> email]

ResetInit ==
  /\ code = [a \in Accounts |-> 0] /\ codes = 0
  /\ open = TRUE /\ closes = 0 /\ closing = 0 /\ due = 0
  /\ step = "email" /\ email = NoAccount /\ token = NoAccount
  /\ send = NoCall /\ verify = NoCall /\ submit = NoCall
  /\ changed = {} /\ late = FALSE

dialog  == <<open, closes, closing, due, step, email, token>>
requests == <<send, verify, submit>>
history == <<changed, late>>

\* The address can be typed at the first step only, also while the code is being sent.
\* Mutant: at every step.
TypeEmail_Always(a) ==
  /\ open /\ a # email /\ email' = a
  /\ UNCHANGED <<code, codes, open, closes, closing, due, step, token, requests, history>>
TypeEmail(a) ==
  /\ open /\ step = "email" /\ a # email /\ email' = a
  /\ UNCHANGED <<code, codes, open, closes, closing, due, step, token, requests, history>>

\* onClose of the login page; the effect then closes the native dialog.
Shut == open /\ open' = FALSE /\ closes' = closes + 1 /\ closing' = closing + 1

\* Escape, the cross and the backdrop: the handler of the dialog, which also starts
\* the timer, before the event has come.
CloseDialog ==
  /\ Shut /\ due' = due + 1
  /\ UNCHANGED <<code, codes, step, email, token, requests, history>>

\* "Cancel" and "Back to sign in" call the login page's onClose alone.
Cancel ==
  /\ Shut /\ due' = due
  /\ UNCHANGED <<code, codes, step, email, token, requests, history>>

\* The event: the handler again, and its timer.  It shuts a dialog that has been
\* opened again meanwhile, which sends one more.
CloseEvent ==
  /\ closing > 0 /\ due' = due + 1
  /\ \/ ~open /\ closing' = closing - 1 /\ UNCHANGED <<open, closes>>
     \/ open /\ open' = FALSE /\ closes' = closes + 1 /\ closing' = closing
  /\ UNCHANGED <<code, codes, step, email, token, requests, history>>

OpenDialog ==
  /\ ~open /\ closes < MaxCloses /\ open' = TRUE
  /\ UNCHANGED <<code, codes, closes, closing, due, step, email, token, requests, history>>

\* reset(): 200 ms later, whether or not the dialog is open again.  The address stays.
Reset ==
  /\ due > 0 /\ due' = due - 1
  /\ step' = "email" /\ token' = NoAccount
  /\ UNCHANGED <<code, codes, open, closes, closing, email, requests, history>>

-----------------------------------------------------------------------------
SendCode ==
  /\ open /\ step = "email" /\ send.st = "none"
  /\ send' = NewCall(email, 0)
  /\ UNCHANGED <<code, codes, dialog, verify, submit, history>>

\* Any code that was mailed, or a wrong one, is typed.
VerifyCode(c) ==
  /\ open /\ step = "otp" /\ verify.st = "none" /\ c \in 0..codes
  /\ verify' = NewCall(email, c)
  /\ UNCHANGED <<code, codes, dialog, send, submit, history>>

SetPassword ==
  /\ open /\ step = "reset" /\ submit.st = "none"
  /\ submit' = NewCall(token, 0)
  /\ UNCHANGED <<code, codes, dialog, send, verify, history>>

\* forgot_password: a new code replaces the one before; without an account the
\* answer is the same.  Here and below the answer may be lost after the deed.
ServeSend ==
  /\ send.st = "asked"
  /\ \/ send.to = NoAccount /\ send' = [send EXCEPT !.st = "ok"] /\ UNCHANGED <<code, codes>>
     \/ /\ send.to # NoAccount /\ codes < MaxCodes /\ codes' = codes + 1
        /\ code' = [code EXCEPT ![send.to] = codes + 1]
        /\ \E st \in {"ok", "failed"} : send' = [send EXCEPT !.st = st]
     \/ send' = [send EXCEPT !.st = "failed"] /\ UNCHANGED <<code, codes>>
  /\ UNCHANGED <<dialog, verify, submit, history>>

\* verify_email_otp: the stored code is read and compared,
CompareCode ==
  /\ verify.st = "asked"
  /\ \/ /\ verify.to # NoAccount /\ verify.val # 0 /\ code[verify.to] = verify.val
        /\ verify' = [verify EXCEPT !.st = "matched"]
     \/ verify' = [verify EXCEPT !.st = "failed"]
  /\ UNCHANGED <<code, codes, dialog, send, submit, history>>

\* and whatever is stored by now is deleted; a token is issued.
DeleteCode ==
  /\ verify.st = "matched"
  /\ \E st \in {"ok", "failed"} : verify' = [verify EXCEPT !.st = st]
  /\ code' = [code EXCEPT ![verify.to] = 0]
  /\ UNCHANGED <<codes, dialog, send, submit, history>>

Lapse(a) ==
  /\ code[a] # 0 /\ code' = [code EXCEPT ![a] = 0]
  /\ UNCHANGED <<codes, dialog, requests, history>>

\* reset_password: a token is good for ten minutes, any number of times.
ServeSubmit ==
  /\ submit.st = "asked"
  /\ \/ /\ \E st \in {"ok", "failed"} : submit' = [submit EXCEPT !.st = st]
        /\ changed' = changed \cup {<<submit.to, submit.shown>>}
     \/ submit' = [submit EXCEPT !.st = "failed"] /\ UNCHANGED changed
  /\ UNCHANGED <<code, codes, dialog, send, verify, late>>

\* The answers; an error only ends the call.
Answered(call, next) ==
  /\ call.st \in {"ok", "failed"}
  /\ step' = IF call.st = "ok" THEN next ELSE step
  /\ UNCHANGED <<code, codes, open, closes, closing, due, email, changed>>

CodeSent     == send' = NoCall /\ Answered(send, "otp") /\ UNCHANGED <<token, verify, submit, late>>
CodeVerified == /\ verify' = NoCall /\ Answered(verify, "reset")
                /\ token' = IF verify.st = "ok" THEN verify.to ELSE token
                /\ late' = (late \/ (verify.st = "ok" /\ verify.to # email))
                /\ UNCHANGED <<send, submit>>
PasswordSet  == submit' = NoCall /\ Answered(submit, "done") /\ UNCHANGED <<token, send, verify, late>>

ResetNext ==
  \/ CloseDialog \/ Cancel \/ CloseEvent \/ OpenDialog \/ Reset
  \/ SendCode \/ SetPassword \/ ServeSend \/ CompareCode \/ DeleteCode \/ ServeSubmit
  \/ CodeSent \/ CodeVerified \/ PasswordSet
  \/ \E a \in Address : TypeEmail(a)
  \/ \E a \in Accounts : Lapse(a)
  \/ \E c \in 0..MaxCodes : VerifyCode(c)

-----------------------------------------------------------------------------
ResetTypeOK ==
  /\ code \in [Accounts -> 0..MaxCodes] /\ codes \in 0..MaxCodes
  /\ open \in BOOLEAN /\ closes \in 0..MaxCloses /\ {closing, due} \subseteq 0..2 * MaxCloses
  /\ step \in {"email", "otp", "reset", "done"} /\ {email, token} \subseteq Address
  /\ \A call \in {send, verify, submit} :
       /\ call.st \in {"none", "asked", "matched", "ok", "failed"}
       /\ {call.to, call.shown} \subseteq Address /\ call.val \in 0..MaxCodes
  /\ changed \subseteq Address \X Address /\ late \in BOOLEAN

\* However the dialog is closed, opened again, cleared by its timers, filled in once
\* more and moved on by late answers, those of codes sent and passwords set included:
\* a new password goes to the account of the address in the dialog.  The exception
\* is a token that comes after the dialog was cleared and another address typed.
PasswordsGoToTheAddress ==
  ~late => \A pair \in changed : pair[1] = pair[2]
=============================================================================
