---------------------------- MODULE SessionTokens ----------------------------
(***************************************************************************)
(* The refresh tokens of one account on the server: signing in, exchanging *)
(* a token, signing out, and what a failure leaves between two commits.    *)
(*                                                                         *)
(* A call holds no lock between the commits it makes; every read and every *)
(* commit is an action.  Callers are whoever may have a call open at the   *)
(* same time: the tabs of a browser, its second device, a retry.           *)
(*                                                                         *)
(* Tokens are numbered in order of insertion.  MaxTokens bounds them.      *)
(***************************************************************************)
EXTENDS Naturals, Sequences

CONSTANTS Callers,     \* calls that may be open at the same time
          MaxTokens    \* bound: tokens ever issued

ASSUME TokensAssumption == MaxTokens \in Nat \ {0}

VARIABLES
  overlap,   \* whether calls may be open at the same time; never changes
  tokens,    \* the rows of refresh_tokens, in order of insertion
  account,   \* its users row; deleting it deletes the tokens (ON DELETE CASCADE)
  calls,     \* the open call of each caller, and where the server is with it
  held       \* tokens some caller has been given the raw value of

vars == <<overlap, tokens, account, calls, held>>

Numbers == 1..MaxTokens
Ops == {"signin", "refresh", "logout"}

\* family is the number of the family's first token; replaced is replaced_by_id,
\* 0 for NULL.
RefreshToken == [family : Numbers, revoked : BOOLEAN, expired : BOOLEAN,
                 replaced : 0..MaxTokens]

\* What a call has done: sent, read its token (found, or spent already),
\* about to revoke, inserted the new token, answered.  made is the new token.
Phases == {"idle", "sent", "found", "spent", "revoking", "issued", "done", "refused"}
Calls == [op : Ops, pc : Phases, token : 0..MaxTokens, made : 0..MaxTokens]

NoCall == [op |-> "signin", pc |-> "idle", token |-> 0, made |-> 0]

TypeOK ==
  /\ overlap \in BOOLEAN
  /\ tokens \in Seq(RefreshToken) /\ Len(tokens) <= MaxTokens
  /\ account \in {"active", "disabled", "deleted"}
  /\ calls \in [Callers -> Calls]
  /\ held \subseteq 1..Len(tokens)

Init ==
  /\ overlap \in BOOLEAN
  /\ tokens = <<>> /\ account = "active"
  /\ calls = [c \in Callers |-> NoCall]
  /\ held = {}

Known(t) == t \in 1..Len(tokens) /\ account # "deleted"
Live(t) == Known(t) /\ ~tokens[t].revoked /\ ~tokens[t].expired
Family(t) == tokens[t].family
Of(f) == {t \in 1..Len(tokens) : Family(t) = f}

\* The caller's call moves on.
To(c, pc) == calls' = [calls EXCEPT ![c].pc = pc]

-----------------------------------------------------------------------------
(* Sending a call, and getting its answer.                                 *)

Send(c, op, t) ==
  /\ calls[c].pc = "idle" /\ (overlap \/ \A d \in Callers : calls[d].pc = "idle")
  /\ calls' = [calls EXCEPT ![c] = [op |-> op, pc |-> "sent", token |-> t, made |-> 0]]
  /\ overlap' = overlap /\ UNCHANGED <<tokens, account, held>>

\* The answer reaches the caller.
Receive(c) ==
  /\ calls[c].pc \in {"done", "refused"}
  /\ held' = IF calls[c].pc = "done" /\ calls[c].made # 0
             THEN held \cup {calls[c].made} ELSE held
  /\ calls' = [calls EXCEPT ![c] = NoCall]
  /\ overlap' = overlap /\ UNCHANGED <<tokens, account>>

\* The server stops within the call, or the answer is lost on its way.
Lose(c) ==
  /\ calls[c].pc # "idle"
  /\ calls' = [calls EXCEPT ![c] = NoCall]
  /\ overlap' = overlap /\ UNCHANGED <<tokens, account, held>>

-----------------------------------------------------------------------------
(* The server.                                                             *)

Insert(c, f, pc) ==
  /\ Len(tokens) < MaxTokens
  /\ tokens' = Append(tokens, [family |-> f, revoked |-> FALSE, expired |-> FALSE,
                               replaced |-> 0])
  /\ calls' = [calls EXCEPT ![c].pc = pc, ![c].made = Len(tokens) + 1]

\* signin, signup: _session_tokens issues a token of a new family.
SignIn(c) ==
  /\ calls[c].pc = "sent" /\ calls[c].op = "signin"
  /\ IF account = "active"
     THEN Insert(c, Len(tokens) + 1, "done")
     ELSE To(c, "refused") /\ UNCHANGED tokens
  /\ overlap' = overlap /\ UNCHANGED <<account, held>>

\* Mutant of Lookup: rotation does not look at revoked_at.
LookupIgnoresRevoked(c) ==
  /\ calls[c].pc = "sent" /\ calls[c].op # "signin"
  /\ LET t == calls[c].token
     IN IF ~Known(t) THEN To(c, "refused")
        ELSE IF calls[c].op = "logout" THEN To(c, "revoking")
        ELSE IF tokens[t].expired THEN To(c, "refused")
        ELSE To(c, "found")
  /\ overlap' = overlap /\ UNCHANGED <<tokens, account, held>>

\* The query both calls start with, and the checks rotate_refresh_token makes
\* on the record.
Lookup(c) ==
  /\ calls[c].pc = "sent" /\ calls[c].op # "signin"
  /\ LET t == calls[c].token
     IN IF ~Known(t) THEN To(c, "refused")
        ELSE IF calls[c].op = "logout" THEN To(c, "revoking")
        ELSE IF tokens[t].revoked THEN To(c, "spent")
        ELSE IF tokens[t].expired THEN To(c, "refused")
        ELSE To(c, "found")
  /\ overlap' = overlap /\ UNCHANGED <<tokens, account, held>>

\* revoke_family: one UPDATE of the tokens not revoked yet.
Revoke(f) == [t \in 1..Len(tokens) |->
                IF Family(t) = f THEN [tokens[t] EXCEPT !.revoked = TRUE] ELSE tokens[t]]
RevokeFamily(c) ==
  /\ calls[c].pc \in {"spent", "revoking"}
  /\ tokens' = IF account = "deleted" THEN tokens ELSE Revoke(Family(calls[c].token))
  /\ To(c, IF calls[c].pc = "spent" THEN "refused" ELSE "done")
  /\ overlap' = overlap /\ UNCHANGED <<account, held>>

\* rotate_refresh_token loads the user, and issue_refresh_token commits the
\* new token in the family of the presented one.
Issue(c) ==
  /\ calls[c].pc = "found"
  /\ IF account = "active"
     THEN Insert(c, Family(calls[c].token), "issued")
     ELSE To(c, "refused") /\ UNCHANGED tokens
  /\ overlap' = overlap /\ UNCHANGED <<account, held>>

\* Mutant of Spend: the presented token is not revoked.
SpendNothing(c) ==
  /\ calls[c].pc = "issued" /\ To(c, "done")
  /\ overlap' = overlap /\ UNCHANGED <<tokens, account, held>>

\* Mutant of Spend: the link goes from the new record to the old one.
SpendLinksBack(c) ==
  /\ calls[c].pc = "issued"
  /\ IF account = "deleted"
     THEN To(c, "refused") /\ UNCHANGED tokens
     ELSE /\ tokens' = [tokens EXCEPT ![calls[c].token].revoked = TRUE,
                                      ![calls[c].made].replaced = calls[c].token]
          /\ To(c, "done")
  /\ overlap' = overlap /\ UNCHANGED <<account, held>>

\* The second commit of rotate_refresh_token: the presented token is revoked.
\* It raises when the row is gone.
Spend(c) ==
  /\ calls[c].pc = "issued"
  /\ IF account = "deleted"
     THEN To(c, "refused") /\ UNCHANGED tokens
     ELSE /\ tokens' = [tokens EXCEPT ![calls[c].token].revoked = TRUE,
                                      ![calls[c].token].replaced = calls[c].made]
          /\ To(c, "done")
  /\ overlap' = overlap /\ UNCHANGED <<account, held>>

\* REFRESH_TOKEN_DAYS have passed since t was issued.
Expire(t) ==
  /\ t \in 1..Len(tokens) /\ ~tokens[t].expired
  /\ tokens' = [tokens EXCEPT ![t].expired = TRUE]
  /\ overlap' = overlap /\ UNCHANGED <<account, calls, held>>

\* An administrator disables or enables the account; its owner deletes it.
SetAccount(a) ==
  /\ account # "deleted" /\ a # account
  /\ account' = a
  /\ overlap' = overlap /\ UNCHANGED <<tokens, calls, held>>

ServerStep(c) == SignIn(c) \/ Lookup(c) \/ RevokeFamily(c) \/ Issue(c) \/ Spend(c)

Next ==
  \/ \E c \in Callers : \/ Send(c, "signin", 0)
                        \/ \E t \in held : Send(c, "refresh", t) \/ Send(c, "logout", t)
                        \/ ServerStep(c) \/ Receive(c) \/ Lose(c)
  \/ \E t \in Numbers : Expire(t)
  \/ \E a \in {"active", "disabled", "deleted"} : SetAccount(a)

Spec == Init /\ [][Next]_vars

-----------------------------------------------------------------------------
(* Properties.                                                             *)

\* Calls that may still issue a token in f: past the checks on the record.
Exchanging(f) == {c \in Callers : calls[c].pc = "found" /\ Family(calls[c].token) = f}

\* A family is over: no token of it can be exchanged, and no exchange that
\* began while one could is still to issue.
Over(f) == Exchanging(f) = {} /\ \A t \in Of(f) : ~Live(t)

\* A session that is over stays over.  Whatever calls are open, whichever of
\* their commits are lost, and however often old tokens are presented again,
\* no token of the family becomes usable (rotate_refresh_token's checks).
OverForGood == [][\A f \in Numbers : Of(f) # {} /\ Over(f) => Over(f)']_vars

\* Calls made one at a time: whatever the server or the network loses between
\* the two commits of a rotation, a caller is never left with two usable
\* tokens of one session.
OneUsableToken ==
  ~overlap => \A t, u \in held : Live(t) /\ Live(u) /\ Family(t) = Family(u) => t = u

\* replaced_by_id leads from a spent token to a younger one of its family, so
\* following it ends.
ReplacementsLeadForward ==
  \A t \in 1..Len(tokens) :
    tokens[t].replaced # 0 =>
      /\ tokens[t].revoked
      /\ tokens[t].replaced \in (t + 1)..Len(tokens)
      /\ Family(tokens[t].replaced) = Family(t)
=============================================================================
