------------------------- MODULE SessionTokensProofs -------------------------
(* Theorems about SessionTokens, for any callers and any number of tokens.  *)
EXTENDS SessionTokens, TLAPS

\* Where the server is with a call, relative to the tokens.
CallPlaced(c) ==
  LET call == calls[c]
  IN /\ call.pc \in {"found", "spent", "revoking", "issued"}
          => call.op # "signin" /\ call.token \in 1..Len(tokens)
     /\ call.pc = "sent" /\ call.op # "signin" => call.token \in 1..Len(tokens)
     /\ call.pc = "issued" => /\ call.made \in (call.token + 1)..Len(tokens)
                              /\ Family(call.made) = Family(call.token)
     /\ call.pc = "done" => call.made \in 0..Len(tokens)
     /\ call.pc \in {"idle", "sent", "found", "spent", "revoking"} => call.made = 0

\* A family is named by its first token, so a new token's number names none.
FamiliesNamed == \A t \in 1..Len(tokens) : tokens[t].family <= t

TypeInv == TypeOK /\ FamiliesNamed /\ \A c \in Callers : CallPlaced(c)

Inv == TypeInv /\ ReplacementsLeadForward

\* The one way tokens grow.
LEMMA Inserted ==
  ASSUME TypeOK, NEW f \in Numbers, NEW c \in Callers, NEW pc \in Phases, Insert(c, f, pc)
  PROVE  /\ tokens' \in Seq(RefreshToken) /\ Len(tokens') = Len(tokens) + 1
         /\ Len(tokens') <= MaxTokens
         /\ \A t \in 1..Len(tokens) : t \in 1..Len(tokens') /\ tokens'[t] = tokens[t]
         /\ tokens'[Len(tokens) + 1] =
              [family |-> f, revoked |-> FALSE, expired |-> FALSE, replaced |-> 0]
         /\ calls' = [calls EXCEPT ![c].pc = pc, ![c].made = Len(tokens) + 1]
         /\ calls' \in [Callers -> Calls]
<1> DEFINE r == [family |-> f, revoked |-> FALSE, expired |-> FALSE, replaced |-> 0]
<1>1. r \in RefreshToken  BY TokensAssumption DEF RefreshToken, Numbers
<1>2. tokens' = Append(tokens, r) /\ Len(tokens) < MaxTokens  BY DEF Insert
<1>3. tokens \in Seq(RefreshToken) /\ Len(tokens) \in Nat  BY DEF TypeOK
<1>4. Len(tokens) + 1 \in 0..MaxTokens  BY <1>2, <1>3, TokensAssumption
<1>5. calls' \in [Callers -> Calls]  BY <1>4 DEF Insert, TypeOK, Calls
<1> HIDE DEF r
<1>6. /\ tokens' \in Seq(RefreshToken) /\ Len(tokens') = Len(tokens) + 1
      /\ \A t \in 1..Len(tokens) : tokens'[t] = tokens[t]
      /\ tokens'[Len(tokens) + 1] = r
  BY <1>1, <1>2, <1>3
<1>7. QED  BY <1>2, <1>3, <1>4, <1>5, <1>6, TokensAssumption DEF Insert, r

\* Revoking changes revoked and nothing else.
LEMMA Revoked ==
  ASSUME TypeOK, NEW f
  PROVE  /\ Revoke(f) \in Seq(RefreshToken) /\ Len(Revoke(f)) = Len(tokens)
         /\ \A t \in 1..Len(tokens) :
              /\ Revoke(f)[t] = [tokens[t] EXCEPT !.revoked = Revoke(f)[t].revoked]
              /\ tokens[t].revoked => Revoke(f)[t].revoked
              /\ Revoke(f)[t].family = tokens[t].family
              /\ Revoke(f)[t].expired = tokens[t].expired
              /\ Revoke(f)[t].replaced = tokens[t].replaced
<1>1. tokens \in Seq(RefreshToken) /\ Len(tokens) \in Nat  BY DEF TypeOK
<1>2. \A t \in 1..Len(tokens) : tokens[t] \in RefreshToken  BY <1>1
<1>3. \A t \in 1..Len(tokens) : Revoke(f)[t] \in RefreshToken  BY <1>2 DEF Revoke, RefreshToken
<1>4. Revoke(f) \in [1..Len(tokens) -> RefreshToken]  BY <1>3 DEF Revoke
<1>5. Revoke(f) \in Seq(RefreshToken) /\ Len(Revoke(f)) = Len(tokens)  BY <1>1, <1>4
<1>6. QED  BY <1>2, <1>5 DEF Revoke, RefreshToken, Family

-----------------------------------------------------------------------------
\* A step that leaves the tokens alone keeps what is said of them.
LEMMA TokensKept ==
  ASSUME Inv, UNCHANGED <<overlap, tokens>>, calls' \in [Callers -> Calls],
         account' \in {"active", "disabled", "deleted"}, held' \subseteq 1..Len(tokens),
         \A c \in Callers : CallPlaced(c)'
  PROVE  Inv'
BY DEF Inv, TypeInv, TypeOK, FamiliesNamed, ReplacementsLeadForward, Family

\* A step that puts c's call, and nothing else, into another phase.
LEMMA CallMoved ==
  ASSUME Inv, NEW c \in Callers, NEW pc \in Phases, To(c, pc), UNCHANGED <<overlap, tokens, account, held>>,
         CallPlaced(c)'
  PROVE  Inv'
<1>1. calls' \in [Callers -> Calls] /\ \A d \in Callers \ {c} : calls'[d] = calls[d]
  BY DEF Inv, TypeInv, TypeOK, To, Calls
<1>2. \A d \in Callers : CallPlaced(d)'
  BY <1>1 DEF Inv, TypeInv, CallPlaced, Family
<1>3. QED  BY <1>1, <1>2, TokensKept DEF Inv, TypeInv, TypeOK

\* The initial state.
LEMMA InitInv == Init => Inv
BY TokensAssumption DEF Init, Inv, TypeInv, TypeOK, NoCall, Calls, Ops, Phases, CallPlaced,
                        FamiliesNamed, ReplacementsLeadForward

\* Sending a call, and what ends it.
LEMMA SendInv ==
  ASSUME Inv, NEW c \in Callers, NEW op \in Ops, NEW t \in 0..MaxTokens,
         op # "signin" => t \in 1..Len(tokens), Send(c, op, t)
  PROVE  Inv'
<1>1. calls' \in [Callers -> Calls] /\ \A d \in Callers \ {c} : calls'[d] = calls[d]
  BY TokensAssumption DEF Inv, TypeInv, TypeOK, Send, Calls, Phases
<1>2. calls'[c] = [op |-> op, pc |-> "sent", token |-> t, made |-> 0]
  BY DEF Inv, TypeInv, TypeOK, Send
<1>3. \A d \in Callers : CallPlaced(d)'
  BY <1>1, <1>2 DEF Inv, TypeInv, CallPlaced, Family, Send
<1>4. QED  BY <1>1, <1>3, TokensKept DEF Inv, TypeInv, TypeOK, Send

\* Receiving or losing the answer.
LEMMA EndInv ==
  ASSUME Inv, NEW c \in Callers, Receive(c) \/ Lose(c)
  PROVE  Inv'
<1>1. /\ calls' = [calls EXCEPT ![c] = NoCall]
      /\ UNCHANGED <<overlap, tokens, account>>
  BY DEF Receive, Lose
<1>2. held' \subseteq 1..Len(tokens)
  <2>1. held \subseteq 1..Len(tokens) /\ Len(tokens) \in Nat  BY DEF Inv, TypeInv, TypeOK
  <2>2. calls[c].pc = "done" /\ calls[c].made # 0 => calls[c].made \in 1..Len(tokens)
    BY <2>1 DEF Inv, TypeInv, CallPlaced
  <2>3. QED  BY <2>1, <2>2 DEF Receive, Lose
<1>3. calls' \in [Callers -> Calls] /\ \A d \in Callers \ {c} : calls'[d] = calls[d]
  BY <1>1, TokensAssumption DEF Inv, TypeInv, TypeOK, NoCall, Calls, Phases, Ops
<1>4. calls'[c] = NoCall  BY <1>1 DEF Inv, TypeInv, TypeOK
<1>5. \A d \in Callers : CallPlaced(d)'
  BY <1>1, <1>3, <1>4 DEF Inv, TypeInv, CallPlaced, Family, NoCall
<1>6. QED  BY <1>1, <1>2, <1>3, <1>5, TokensKept DEF Inv, TypeInv, TypeOK

-----------------------------------------------------------------------------
(* The server's steps.                                                     *)

\* A token inserted into a family named by an older token, or by itself.
LEMMA InsertInv ==
  ASSUME Inv, NEW c \in Callers, NEW f \in 1..(Len(tokens) + 1), f \in Numbers,
         NEW pc \in {"done", "issued"}, Insert(c, f, pc), UNCHANGED <<overlap, account, held>>,
         pc = "issued" => /\ calls[c].op # "signin" /\ calls[c].token \in 1..Len(tokens)
                          /\ f = Family(calls[c].token)
  PROVE  Inv'
<1>1. TypeOK /\ pc \in Phases  BY DEF Inv, TypeInv, Phases
<1> DEFINE n == Len(tokens) + 1
<1>2. /\ tokens' \in Seq(RefreshToken) /\ Len(tokens') = n /\ n <= MaxTokens
      /\ \A t \in 1..Len(tokens) : t \in 1..n /\ tokens'[t] = tokens[t]
      /\ tokens'[n] = [family |-> f, revoked |-> FALSE, expired |-> FALSE, replaced |-> 0]
      /\ calls' = [calls EXCEPT ![c].pc = pc, ![c].made = n]
      /\ calls' \in [Callers -> Calls]
  BY <1>1, Inserted
<1>3. Len(tokens) \in Nat  BY <1>1 DEF TypeOK
<1>4. \A t \in 1..Len(tokens') : t = n \/ t \in 1..Len(tokens)  BY <1>2, <1>3
<1>5. TypeOK'  BY <1>1, <1>2, <1>3 DEF TypeOK
<1>6. FamiliesNamed'
  BY <1>2, <1>3, <1>4 DEF Inv, TypeInv, FamiliesNamed
<1>7. ReplacementsLeadForward'
  <2> SUFFICES ASSUME NEW t \in 1..Len(tokens'), tokens'[t].replaced # 0
               PROVE  /\ tokens'[t].revoked
                      /\ tokens'[t].replaced \in (t + 1)..Len(tokens')
                      /\ tokens'[tokens'[t].replaced].family = tokens'[t].family
    BY DEF ReplacementsLeadForward, Family
  <2>1. t \in 1..Len(tokens) /\ tokens'[t] = tokens[t]  BY <1>2, <1>4
  <2>2. /\ tokens[t].revoked /\ tokens[t].replaced \in (t + 1)..Len(tokens)
        /\ tokens[tokens[t].replaced].family = tokens[t].family
    BY <2>1 DEF Inv, ReplacementsLeadForward, Family
  <2>3. tokens[t].replaced \in 1..Len(tokens)  BY <2>1, <2>2, <1>3
  <2>4. QED  BY <1>2, <1>3, <2>1, <2>2, <2>3
<1>8. \A d \in Callers : CallPlaced(d)'
  <2> SUFFICES ASSUME NEW d \in Callers PROVE CallPlaced(d)'  OBVIOUS
  <2>1. CallPlaced(d) /\ calls[d] \in Calls  BY <1>1 DEF Inv, TypeInv, TypeOK
  <2>2. CASE d = c
    <3>1. /\ calls'[c].pc = pc /\ calls'[c].made = n /\ calls'[c].op = calls[c].op
          /\ calls'[c].token = calls[c].token
      BY <1>1, <1>2 DEF TypeOK, Calls
    <3>2. CASE pc = "done"
      <4>1. n \in 0..n  BY <1>3
      <4>2. QED  BY <2>2, <3>1, <3>2, <1>2, <4>1 DEF CallPlaced
    <3>3. CASE pc = "issued"
      <4>1. calls[c].token \in 1..Len(tokens) /\ f = tokens[calls[c].token].family
        BY <3>3 DEF Family
      <4>2. n \in (calls[c].token + 1)..n  BY <4>1, <1>3
      <4>3. tokens'[n].family = f /\ tokens'[calls[c].token] = tokens[calls[c].token]
        BY <1>2, <4>1
      <4>4. calls[c].token \in 1..n /\ calls[c].op # "signin"  BY <3>3, <4>1, <1>2
      <4>5. /\ calls'[c].op # "signin" /\ calls'[c].token \in 1..Len(tokens')
            /\ calls'[c].made \in (calls'[c].token + 1)..Len(tokens')
            /\ tokens'[calls'[c].made].family = tokens'[calls'[c].token].family
        BY <3>1, <1>2, <4>1, <4>2, <4>3, <4>4
      <4>6. QED  BY <2>2, <3>1, <3>3, <4>5 DEF CallPlaced, Family
    <3>4. QED  BY <3>2, <3>3
  <2>3. CASE d # c
    <3>1. calls'[d] = calls[d]  BY <1>1, <1>2, <2>3 DEF TypeOK
    <3>2. \A t \in 1..Len(tokens) : t \in 1..n /\ tokens'[t].family = tokens[t].family
      BY <1>2
    <3>3. CASE calls[d].pc = "issued"
      <4>1. /\ calls[d].token \in 1..Len(tokens)
            /\ calls[d].made \in (calls[d].token + 1)..Len(tokens)
            /\ tokens[calls[d].made].family = tokens[calls[d].token].family
        BY <2>1, <3>3 DEF CallPlaced, Family
      <4>2. calls[d].made \in 1..Len(tokens)  BY <4>1, <1>3
      <4>3. calls[d].made \in (calls[d].token + 1)..n  BY <4>1, <1>3
      <4>4. QED  BY <1>2, <2>1, <3>1, <3>2, <3>3, <4>1, <4>2, <4>3 DEF CallPlaced, Family
    <3>4. CASE calls[d].pc # "issued"
      <4>1. calls[d].made \in 0..Len(tokens) => calls[d].made \in 0..n  BY <1>3
      <4>2. calls[d].token \in 1..Len(tokens) => calls[d].token \in 1..n  BY <1>3
      <4> HIDE DEF n
      <4>3. QED  BY <1>2, <2>1, <3>1, <3>4, <4>1, <4>2 DEF CallPlaced
    <3>5. QED  BY <3>3, <3>4
  <2>4. QED  BY <2>2, <2>3
<1>9. QED  BY <1>5, <1>6, <1>7, <1>8 DEF Inv, TypeInv

\* Signing in inserts the first token of a family.
LEMMA SignInInv ==
  ASSUME Inv, NEW c \in Callers, SignIn(c)
  PROVE  Inv'
<1>1. CASE account = "active"
  <2>1. Insert(c, Len(tokens) + 1, "done") /\ UNCHANGED <<overlap, account, held>>  BY <1>1 DEF SignIn
  <2>2. Len(tokens) + 1 \in Numbers /\ Len(tokens) + 1 \in 1..(Len(tokens) + 1)
    BY <2>1, TokensAssumption DEF Inv, TypeInv, TypeOK, Insert, Numbers
  <2>3. QED  BY <2>1, <2>2, InsertInv
<1>2. CASE account # "active"
  BY <1>2, CallMoved DEF SignIn, Phases, Inv, TypeInv, TypeOK, To, CallPlaced, Calls
<1>3. QED  BY <1>1, <1>2

\* The checks move the call on and nothing else.
LEMMA LookupInv ==
  ASSUME Inv, NEW c \in Callers, Lookup(c)
  PROVE  Inv'
<1>1. CallPlaced(c) /\ calls[c] \in Calls  BY DEF Inv, TypeInv, TypeOK
<1>2. PICK pc \in {"refused", "revoking", "spent", "found"} : To(c, pc)
  BY DEF Lookup
<1>3. calls'[c] = [calls[c] EXCEPT !.pc = pc]  BY <1>2 DEF To, Inv, TypeInv, TypeOK
<1>4. CallPlaced(c)'
  BY <1>1, <1>2, <1>3 DEF Lookup, CallPlaced, Calls
<1>5. QED  BY <1>2, <1>4, CallMoved DEF Lookup, Phases

\* A step that rewrites tokens in place, without touching families and
\* replacements, and puts c's call into another phase.
LEMMA RewriteInv ==
  ASSUME Inv, NEW c \in Callers, NEW pc \in {"refused", "done"}, To(c, pc),
         tokens' \in Seq(RefreshToken), Len(tokens') = Len(tokens), UNCHANGED <<overlap, account, held>>,
         calls[c].pc = "issued" \/ calls[c].pc \in {"spent", "revoking"},
         \A t \in 1..Len(tokens) :
           /\ tokens'[t].family = tokens[t].family
           /\ tokens[t].revoked => tokens'[t].revoked
           /\ \/ tokens'[t].replaced = tokens[t].replaced
              \/ /\ tokens'[t].revoked
                 /\ tokens'[t].replaced \in (t + 1)..Len(tokens)
                 /\ tokens[tokens'[t].replaced].family = tokens[t].family
  PROVE  Inv'
<1>1. TypeOK /\ Len(tokens) \in Nat  BY DEF Inv, TypeInv, TypeOK
<1>2. calls' \in [Callers -> Calls] /\ \A d \in Callers \ {c} : calls'[d] = calls[d]
  BY <1>1 DEF TypeOK, To, Calls, Phases
<1>3. calls'[c] = [calls[c] EXCEPT !.pc = pc] /\ calls[c] \in Calls  BY <1>1 DEF TypeOK, To
<1>4. TypeOK'  BY <1>1, <1>2 DEF TypeOK
<1>5. FamiliesNamed'  BY DEF Inv, TypeInv, FamiliesNamed
<1>6. ReplacementsLeadForward'
  <2> SUFFICES ASSUME NEW t \in 1..Len(tokens), tokens'[t].replaced # 0
               PROVE  /\ tokens'[t].revoked
                      /\ tokens'[t].replaced \in (t + 1)..Len(tokens)
                      /\ tokens'[tokens'[t].replaced].family = tokens'[t].family
    BY DEF ReplacementsLeadForward, Family
  <2>1. /\ tokens'[t].revoked /\ tokens'[t].replaced \in (t + 1)..Len(tokens)
        /\ tokens[tokens'[t].replaced].family = tokens[t].family
    BY DEF Inv, ReplacementsLeadForward, Family
  <2>2. tokens'[t].replaced \in 1..Len(tokens)  BY <2>1, <1>1
  <2>3. QED  BY <2>1, <2>2
<1>7. \A d \in Callers : CallPlaced(d)'
  <2> SUFFICES ASSUME NEW d \in Callers PROVE CallPlaced(d)'  OBVIOUS
  <2>1. CallPlaced(d)  BY DEF Inv, TypeInv
  <2>2. CASE d = c
    <3>1. calls'[c].pc = pc /\ calls'[c].made = calls[c].made  BY <1>3 DEF Calls
    <3>2. calls[c].made \in 0..Len(tokens)
      BY <1>1, <2>1, <2>2 DEF CallPlaced
    <3>3. QED  BY <2>2, <3>1, <3>2 DEF CallPlaced
  <2>3. CASE d # c
    <3>1. calls'[d] = calls[d]  BY <1>2, <2>3
    <3>2. CASE calls[d].pc = "issued"
      <4>1. /\ calls[d].token \in 1..Len(tokens) /\ calls[d].made \in 1..Len(tokens)
        BY <1>1, <2>1, <3>2 DEF CallPlaced
      <4>2. QED  BY <2>1, <3>1, <3>2, <4>1 DEF CallPlaced, Family
    <3>3. CASE calls[d].pc # "issued"  BY <2>1, <3>1, <3>3 DEF CallPlaced
    <3>4. QED  BY <3>2, <3>3
  <2>4. QED  BY <2>2, <2>3
<1>8. QED  BY <1>4, <1>5, <1>6, <1>7 DEF Inv, TypeInv

\* Revoking a family rewrites tokens in place.
LEMMA RevokeInv ==
  ASSUME Inv, NEW c \in Callers, RevokeFamily(c)
  PROVE  Inv'
<1>1. TypeOK /\ Len(tokens) \in Nat  BY DEF Inv, TypeInv, TypeOK
<1>2. PICK pc \in {"refused", "done"} : To(c, pc)  BY DEF RevokeFamily
<1>3. CASE tokens' = tokens
  BY <1>1, <1>2, <1>3, RewriteInv DEF RevokeFamily, TypeOK
<1>4. CASE tokens' = Revoke(Family(calls[c].token))
  <2> DEFINE f == Family(calls[c].token)
  <2>1. /\ Revoke(f) \in Seq(RefreshToken) /\ Len(Revoke(f)) = Len(tokens)
        /\ \A t \in 1..Len(tokens) : /\ tokens[t].revoked => Revoke(f)[t].revoked
                                     /\ Revoke(f)[t].family = tokens[t].family
                                     /\ Revoke(f)[t].replaced = tokens[t].replaced
    BY <1>1, Revoked
  <2>2. QED  BY <1>2, <1>4, <2>1, RewriteInv DEF RevokeFamily
<1>5. QED  BY <1>3, <1>4 DEF RevokeFamily

\* A rotation inserts a token into the family of the presented one.
LEMMA IssueInv ==
  ASSUME Inv, NEW c \in Callers, Issue(c)
  PROVE  Inv'
<1>1. CallPlaced(c) /\ calls[c] \in Calls /\ tokens \in Seq(RefreshToken) /\ Len(tokens) \in Nat
  BY DEF Inv, TypeInv, TypeOK
<1>2. /\ calls[c].pc = "found" /\ calls[c].op # "signin" /\ calls[c].token \in 1..Len(tokens)
  BY <1>1 DEF Issue, CallPlaced
<1>3. CASE account = "active"
  <2>1. tokens[calls[c].token] \in RefreshToken  BY <1>1, <1>2
  <2>2. Family(calls[c].token) \in Numbers  BY <2>1 DEF Family, RefreshToken
  <2>3. Family(calls[c].token) \in 1..(Len(tokens) + 1)
    BY <1>1, <1>2, <2>2 DEF Inv, TypeInv, FamiliesNamed, Family, Numbers
  <2>4. Insert(c, Family(calls[c].token), "issued") /\ UNCHANGED <<overlap, account, held>>
    BY <1>3 DEF Issue
  <2>5. QED  BY <1>2, <2>2, <2>3, <2>4, InsertInv
<1>4. CASE account # "active"
  <2>1. To(c, "refused") /\ UNCHANGED <<overlap, tokens, account, held>>  BY <1>4 DEF Issue
  <2>2. calls'[c].pc = "refused"  BY <2>1, <1>1 DEF To, Calls, Inv, TypeInv, TypeOK
  <2>3. CallPlaced(c)'  BY <2>2 DEF CallPlaced
  <2>4. QED  BY <2>1, <2>3, CallMoved DEF Phases
<1>5. QED  BY <1>3, <1>4

\* The presented token gets a younger replacement of its own family.
LEMMA SpendInv ==
  ASSUME Inv, NEW c \in Callers, Spend(c)
  PROVE  Inv'
<1>1. TypeOK /\ Len(tokens) \in Nat /\ tokens \in Seq(RefreshToken)  BY DEF Inv, TypeInv, TypeOK
<1>2. CASE account = "deleted"
  BY <1>1, <1>2, RewriteInv DEF Spend
<1>3. CASE account # "deleted"
  <2> DEFINE t == calls[c].token
             n == calls[c].made
  <2>1. /\ t \in 1..Len(tokens) /\ n \in (t + 1)..Len(tokens)
        /\ tokens[n].family = tokens[t].family /\ calls[c] \in Calls
    BY <1>1 DEF Spend, Inv, TypeInv, TypeOK, CallPlaced, Family
  <2>2. tokens' = [tokens EXCEPT ![t].revoked = TRUE, ![t].replaced = n] /\ To(c, "done")
        /\ UNCHANGED <<overlap, account, held>>
    BY <1>3 DEF Spend
  <2>3. n \in 0..MaxTokens  BY <2>1 DEF Calls
  <2>4. tokens[t] \in RefreshToken  BY <1>1, <2>1
  <2>5. [tokens[t] EXCEPT !.revoked = TRUE, !.replaced = n] \in RefreshToken
    BY <2>3, <2>4 DEF RefreshToken
  <2>6. tokens' = [tokens EXCEPT ![t] = [tokens[t] EXCEPT !.revoked = TRUE, !.replaced = n]]
    BY <1>1, <2>1, <2>2
  <2>7. tokens' \in Seq(RefreshToken) /\ Len(tokens') = Len(tokens)
    BY <1>1, <2>1, <2>5, <2>6
  <2>8. \A u \in 1..Len(tokens) :
          tokens'[u] = IF u = t THEN [tokens[t] EXCEPT !.revoked = TRUE, !.replaced = n]
                       ELSE tokens[u]
    BY <1>1, <2>1, <2>6
  <2>9. ASSUME NEW u \in 1..Len(tokens)
        PROVE  /\ tokens'[u].family = tokens[u].family
               /\ tokens[u].revoked => tokens'[u].revoked
               /\ \/ tokens'[u].replaced = tokens[u].replaced
                  \/ /\ tokens'[u].revoked
                     /\ tokens'[u].replaced \in (u + 1)..Len(tokens)
                     /\ tokens[tokens'[u].replaced].family = tokens[u].family
    <3>1. CASE u = t  BY <2>1, <2>4, <2>8, <3>1 DEF RefreshToken
    <3>2. CASE u # t  BY <2>8, <3>2
    <3>3. QED  BY <3>1, <3>2
  <2>10. QED  BY <2>2, <2>7, <2>9, RewriteInv DEF Spend
<1>4. QED  BY <1>2, <1>3

\* What time and the account's owner do.
LEMMA OutsideInv ==
  ASSUME Inv, (\E t \in Numbers : Expire(t)) \/ (\E a \in {"active", "disabled", "deleted"} : SetAccount(a))
  PROVE  Inv'
<1>1. TypeOK /\ Len(tokens) \in Nat /\ tokens \in Seq(RefreshToken)  BY DEF Inv, TypeInv, TypeOK
<1>2. ASSUME NEW t \in Numbers, Expire(t) PROVE Inv'
  <2>1. t \in 1..Len(tokens) /\ tokens' = [tokens EXCEPT ![t].expired = TRUE]
        /\ UNCHANGED <<overlap, account, calls, held>>
    BY <1>2 DEF Expire
  <2>2. tokens[t] \in RefreshToken  BY <1>1, <2>1
  <2>3. [tokens[t] EXCEPT !.expired = TRUE] \in RefreshToken  BY <2>2 DEF RefreshToken
  <2>4. tokens' = [tokens EXCEPT ![t] = [tokens[t] EXCEPT !.expired = TRUE]]
    BY <1>1, <2>1
  <2>5. tokens' \in Seq(RefreshToken) /\ Len(tokens') = Len(tokens)
    BY <1>1, <2>1, <2>3, <2>4
  <2>6. \A u \in 1..Len(tokens) : /\ tokens'[u].family = tokens[u].family
                                  /\ tokens'[u].revoked = tokens[u].revoked
                                  /\ tokens'[u].replaced = tokens[u].replaced
    <3> SUFFICES ASSUME NEW u \in 1..Len(tokens)
                 PROVE /\ tokens'[u].family = tokens[u].family
                       /\ tokens'[u].revoked = tokens[u].revoked
                       /\ tokens'[u].replaced = tokens[u].replaced
      OBVIOUS
    <3>1. CASE u = t  BY <1>1, <2>1, <2>2, <2>4, <3>1 DEF RefreshToken
    <3>2. CASE u # t  BY <1>1, <2>1, <2>4, <3>2
    <3>3. QED  BY <3>1, <3>2
  <2>7. TypeOK' /\ FamiliesNamed'
    BY <1>1, <2>1, <2>5, <2>6 DEF TypeOK, Inv, TypeInv, FamiliesNamed
  <2>8. ReplacementsLeadForward'
    <3> SUFFICES ASSUME NEW u \in 1..Len(tokens), tokens[u].replaced # 0
                 PROVE  /\ tokens[u].revoked
                        /\ tokens[u].replaced \in (u + 1)..Len(tokens)
                        /\ tokens'[tokens[u].replaced].family = tokens[u].family
      BY <2>5, <2>6 DEF ReplacementsLeadForward, Family
    <3>1. /\ tokens[u].revoked /\ tokens[u].replaced \in (u + 1)..Len(tokens)
          /\ tokens[tokens[u].replaced].family = tokens[u].family
      BY DEF Inv, ReplacementsLeadForward, Family
    <3>2. tokens[u].replaced \in 1..Len(tokens)  BY <3>1, <1>1
    <3>3. QED  BY <2>6, <3>1, <3>2
  <2>9. \A c \in Callers : CallPlaced(c)'
    <3> SUFFICES ASSUME NEW c \in Callers PROVE CallPlaced(c)'  OBVIOUS
    <3>1. CallPlaced(c)  BY DEF Inv, TypeInv
    <3>2. CASE calls[c].pc = "issued"
      <4>1. calls[c].token \in 1..Len(tokens) /\ calls[c].made \in 1..Len(tokens)
        BY <1>1, <3>1, <3>2 DEF CallPlaced
      <4>2. QED  BY <2>1, <2>5, <2>6, <3>1, <3>2, <4>1 DEF CallPlaced, Family
    <3>3. CASE calls[c].pc # "issued"  BY <2>1, <2>5, <3>1, <3>3 DEF CallPlaced
    <3>4. QED  BY <3>2, <3>3
  <2>10. QED  BY <2>7, <2>8, <2>9 DEF Inv, TypeInv
<1>3. ASSUME NEW a \in {"active", "disabled", "deleted"}, SetAccount(a) PROVE Inv'
  <2>1. UNCHANGED <<overlap, tokens, calls, held>> /\ account' \in {"active", "disabled", "deleted"}
    BY <1>3 DEF SetAccount
  <2>2. \A c \in Callers : CallPlaced(c)'
    BY <2>1 DEF Inv, TypeInv, CallPlaced, Family
  <2>3. QED  BY <1>1, <2>1, <2>2, TokensKept DEF TypeOK
<1>4. QED  BY <1>2, <1>3

-----------------------------------------------------------------------------
\* Every step preserves the invariant.
LEMMA NextInv == Inv /\ [Next]_vars => Inv'
<1> SUFFICES ASSUME Inv, [Next]_vars PROVE Inv'  OBVIOUS
<1>1. CASE UNCHANGED vars
  BY <1>1 DEF vars, Inv, TypeInv, TypeOK, FamiliesNamed, CallPlaced, ReplacementsLeadForward, Family
<1>2. ASSUME NEW c \in Callers, Send(c, "signin", 0) PROVE Inv'
  BY <1>2, SendInv, TokensAssumption DEF Ops
<1>3. ASSUME NEW c \in Callers, NEW t \in held, Send(c, "refresh", t) \/ Send(c, "logout", t)
      PROVE  Inv'
  <2>1. t \in 1..Len(tokens) /\ t \in 0..MaxTokens
    BY TokensAssumption DEF Inv, TypeInv, TypeOK
  <2>2. QED  BY <1>3, <2>1, SendInv DEF Ops
<1>4. ASSUME NEW c \in Callers, ServerStep(c) PROVE Inv'
  BY <1>4, SignInInv, LookupInv, RevokeInv, IssueInv, SpendInv DEF ServerStep
<1>5. ASSUME NEW c \in Callers, Receive(c) \/ Lose(c) PROVE Inv'
  BY <1>5, EndInv
<1>6. CASE (\E t \in Numbers : Expire(t))
           \/ (\E a \in {"active", "disabled", "deleted"} : SetAccount(a))
  BY <1>6, OutsideInv
<1>7. QED  BY <1>1, <1>2, <1>3, <1>4, <1>5, <1>6 DEF Next

\* The inductive invariant holds of every reachable state.
THEOREM Invariance == Spec => []Inv
BY InitInv, NextInv, PTL DEF Spec

\* Every variable keeps its shape, for any callers and any bound on tokens.
THEOREM TypeCorrect == Spec => []TypeOK
BY Invariance, PTL DEF Inv, TypeInv

\* replaced_by_id leads to younger tokens of the same family, and only spent
\* tokens have one.
THEOREM ReplacementsForward == Spec => []ReplacementsLeadForward
BY Invariance, PTL DEF Inv

-----------------------------------------------------------------------------
(* A session that is over stays over.                                      *)

\* A call whose checks passed is the only way to a new token of the family, and
\* the checks pass only on a live one.
LEMMA OverStep ==
  ASSUME Inv, [Next]_vars, NEW f \in Numbers, Of(f) # {}, Over(f)
  PROVE  Over(f)'
<1>1. TypeOK /\ Len(tokens) \in Nat /\ tokens \in Seq(RefreshToken)  BY DEF Inv, TypeInv, TypeOK
<1>2. PICK first \in 1..Len(tokens) : tokens[first].family = f  BY DEF Of, Family
<1>3. f \in 1..Len(tokens)
  BY <1>1, <1>2 DEF Inv, TypeInv, FamiliesNamed, Numbers
\* It is enough that no token of f becomes live, and no call passes the checks.
<1>4. ASSUME \A t \in 1..Len(tokens') :
               tokens'[t].family = f =>
                 /\ t \in 1..Len(tokens) /\ tokens[t].family = f
                 /\ (tokens[t].revoked => tokens'[t].revoked)
                 /\ (tokens[t].expired => tokens'[t].expired),
             account = "deleted" => account' = "deleted",
             \A c \in Callers : calls'[c].pc = "found" =>
               /\ calls[c].pc = "found" /\ calls'[c].token = calls[c].token
               /\ tokens'[calls[c].token].family = tokens[calls[c].token].family
      PROVE  Over(f)'
  BY <1>4 DEF Over, Of, Live, Known, Exchanging, Family
<1>5. CASE UNCHANGED vars  BY <1>5 DEF vars, Over, Of, Live, Known, Exchanging, Family
<1>6. ASSUME NEW c \in Callers, NEW op \in Ops, NEW t, Send(c, op, t) PROVE Over(f)'
  <2>1. UNCHANGED <<tokens, account>> /\ \A d \in Callers : calls'[d].pc = "found" => calls'[d] = calls[d]
    BY <1>1, <1>6 DEF Send, TypeOK
  <2>2. QED  BY <1>4, <2>1
<1>7. ASSUME NEW c \in Callers, Receive(c) \/ Lose(c) PROVE Over(f)'
  <2>1. UNCHANGED <<tokens, account>> /\ \A d \in Callers : calls'[d].pc = "found" => calls'[d] = calls[d]
    BY <1>1, <1>7 DEF Receive, Lose, TypeOK, NoCall
  <2>2. QED  BY <1>4, <2>1
\* A call that is put into another phase than found adds nothing to f.
<1>8. ASSUME NEW c \in Callers, NEW pc \in Phases \ {"found"}, To(c, pc), UNCHANGED <<tokens, account>>
      PROVE  Over(f)'
  <2>1. \A d \in Callers : calls'[d].pc = "found" => calls'[d] = calls[d]
    BY <1>1, <1>8 DEF To, TypeOK, Calls
  <2>2. QED  BY <1>4, <1>8, <2>1
<1>9. ASSUME NEW c \in Callers, NEW g \in Numbers, g # f, NEW pc \in {"done", "issued"},
             Insert(c, g, pc), UNCHANGED account
      PROVE  Over(f)'
  <2>0. pc \in Phases /\ Insert(c, g, pc)  BY <1>9 DEF Phases
  <2>1. /\ tokens' \in Seq(RefreshToken) /\ Len(tokens') = Len(tokens) + 1
        /\ Len(tokens') <= MaxTokens
        /\ \A t \in 1..Len(tokens) : t \in 1..Len(tokens') /\ tokens'[t] = tokens[t]
        /\ tokens'[Len(tokens) + 1] =
             [family |-> g, revoked |-> FALSE, expired |-> FALSE, replaced |-> 0]
        /\ calls' = [calls EXCEPT ![c].pc = pc, ![c].made = Len(tokens) + 1]
        /\ calls' \in [Callers -> Calls]
    BY <1>1, <2>0, Inserted
  <2>2. \A d \in Callers : calls'[d].pc = "found" => calls'[d] = calls[d]
    BY <1>1, <2>1 DEF TypeOK, Calls
  <2>3. \A d \in Callers : calls[d].pc = "found" => calls[d].token \in 1..Len(tokens)
    BY DEF Inv, TypeInv, CallPlaced
  <2>4. \A t \in 1..Len(tokens') : t \in 1..Len(tokens) \/ t = Len(tokens) + 1
    BY <1>1, <2>1
  <2>5. QED  BY <1>4, <1>9, <2>1, <2>2, <2>3, <2>4
<1>10. ASSUME NEW c \in Callers, SignIn(c) PROVE Over(f)'
  <2>1. CASE account = "active"
    <3>1. Insert(c, Len(tokens) + 1, "done") /\ UNCHANGED account  BY <1>10, <2>1 DEF SignIn
    <3>2. Len(tokens) + 1 \in Numbers /\ Len(tokens) + 1 # f
      BY <1>1, <1>3, <3>1, TokensAssumption DEF Insert, Numbers
    <3>3. QED  BY <1>9, <3>1, <3>2
  <2>2. CASE account # "active"  BY <1>8, <1>10, <2>2 DEF SignIn, Phases
  <2>3. QED  BY <2>1, <2>2
<1>11. ASSUME NEW c \in Callers, Lookup(c) PROVE Over(f)'
  <2>1. CASE \E pc \in {"refused", "revoking", "spent"} : To(c, pc)
    BY <1>8, <1>11, <2>1 DEF Lookup, Phases
  <2>2. CASE To(c, "found") /\ Live(calls[c].token)
    <3>1. UNCHANGED <<tokens, account>>  BY <1>11 DEF Lookup
    <3>2. calls' = [calls EXCEPT ![c].pc = "found"]  BY <2>2 DEF To
    <3>3. calls[c].token \in 1..Len(tokens) /\ tokens[calls[c].token].family # f
      BY <2>2 DEF Over, Of, Live, Known, Family
    <3>4. \A d \in Callers : calls'[d].pc = "found" => d = c \/ calls'[d] = calls[d]
      BY <1>1, <3>2 DEF TypeOK
    <3>5. calls'[c].token = calls[c].token  BY <1>1, <3>2 DEF TypeOK, Calls
    <3>6. Exchanging(f)' = {}
      BY <3>1, <3>3, <3>4, <3>5 DEF Over, Exchanging, Family
    <3>7. QED  BY <3>1, <3>6 DEF Over, Of, Live, Known, Family
  <2>3. QED  BY <1>11, <2>1, <2>2 DEF Lookup, Live
<1>12. ASSUME NEW c \in Callers, RevokeFamily(c) PROVE Over(f)'
  <2>1. \A d \in Callers : calls'[d].pc = "found" => calls'[d] = calls[d]
    BY <1>1, <1>12 DEF RevokeFamily, To, TypeOK, Calls
  <2>2. \A d \in Callers : calls[d].pc = "found" => calls[d].token \in 1..Len(tokens)
    BY DEF Inv, TypeInv, CallPlaced
  <2>3. CASE tokens' = tokens  BY <1>4, <1>12, <2>1, <2>3 DEF RevokeFamily
  <2>4. CASE tokens' = Revoke(Family(calls[c].token))
    <3>1. /\ Len(tokens') = Len(tokens)
          /\ \A t \in 1..Len(tokens) : /\ tokens[t].revoked => tokens'[t].revoked
                                       /\ tokens'[t].family = tokens[t].family
                                       /\ tokens'[t].expired = tokens[t].expired
      BY <1>1, <2>4, Revoked
    <3>2. QED  BY <1>4, <1>12, <2>1, <2>2, <3>1 DEF RevokeFamily
  <2>5. QED  BY <1>12, <2>3, <2>4 DEF RevokeFamily
<1>13. ASSUME NEW c \in Callers, Issue(c) PROVE Over(f)'
  <2>1. CASE account = "active"
    <3>1. Family(calls[c].token) # f  BY <1>13 DEF Issue, Over, Exchanging
    <3>2. calls[c].token \in 1..Len(tokens)  BY <1>13 DEF Issue, Inv, TypeInv, CallPlaced
    <3>3. tokens[calls[c].token] \in RefreshToken  BY <1>1, <3>2
    <3>4. Family(calls[c].token) \in Numbers  BY <3>3 DEF Family, RefreshToken
    <3>5. QED  BY <1>9, <1>13, <2>1, <3>1, <3>4 DEF Issue
  <2>2. CASE account # "active"  BY <1>8, <1>13, <2>2 DEF Issue, Phases
  <2>3. QED  BY <2>1, <2>2
<1>14. ASSUME NEW c \in Callers, Spend(c) PROVE Over(f)'
  <2>1. CASE account = "deleted"  BY <1>8, <1>14, <2>1 DEF Spend, Phases
  <2>2. CASE account # "deleted"
    <3> DEFINE u == calls[c].token
    <3>1. u \in 1..Len(tokens)  BY <1>14 DEF Spend, Inv, TypeInv, CallPlaced
    <3>2. tokens' = [tokens EXCEPT ![u].revoked = TRUE, ![u].replaced = calls[c].made]
          /\ To(c, "done") /\ UNCHANGED account
      BY <1>14, <2>2 DEF Spend
    <3>3. tokens[u] \in RefreshToken  BY <1>1, <3>1
    <3>4. Len(tokens') = Len(tokens)  BY <1>1, <3>2
    <3>5. \A t \in 1..Len(tokens) : /\ tokens[t].revoked => tokens'[t].revoked
                                    /\ tokens'[t].family = tokens[t].family
                                    /\ tokens'[t].expired = tokens[t].expired
      <4> SUFFICES ASSUME NEW t \in 1..Len(tokens)
                   PROVE /\ tokens[t].revoked => tokens'[t].revoked
                         /\ tokens'[t].family = tokens[t].family
                         /\ tokens'[t].expired = tokens[t].expired
        OBVIOUS
      <4>1. CASE t = u  BY <1>1, <3>1, <3>2, <3>3, <4>1 DEF RefreshToken
      <4>2. CASE t # u  BY <1>1, <3>1, <3>2, <4>2
      <4>3. QED  BY <4>1, <4>2
    <3>6. \A d \in Callers : calls'[d].pc = "found" => calls'[d] = calls[d]
      BY <1>1, <3>2 DEF To, TypeOK, Calls
    <3>7. \A d \in Callers : calls[d].pc = "found" => calls[d].token \in 1..Len(tokens)
      BY DEF Inv, TypeInv, CallPlaced
    <3>8. QED  BY <1>4, <3>2, <3>4, <3>5, <3>6, <3>7
  <2>3. QED  BY <2>1, <2>2
<1>15. ASSUME NEW u \in Numbers, Expire(u) PROVE Over(f)'
  <2>1. u \in 1..Len(tokens) /\ tokens' = [tokens EXCEPT ![u].expired = TRUE]
        /\ UNCHANGED <<account, calls>>
    BY <1>15 DEF Expire
  <2>2. Len(tokens') = Len(tokens)  BY <1>1, <2>1
  <2>3. tokens[u] \in RefreshToken  BY <1>1, <2>1
  <2>4. \A t \in 1..Len(tokens) : /\ tokens'[t].revoked = tokens[t].revoked
                                  /\ tokens'[t].family = tokens[t].family
                                  /\ tokens[t].expired => tokens'[t].expired
    <3> SUFFICES ASSUME NEW t \in 1..Len(tokens)
                 PROVE /\ tokens'[t].revoked = tokens[t].revoked
                       /\ tokens'[t].family = tokens[t].family
                       /\ tokens[t].expired => tokens'[t].expired
      OBVIOUS
    <3>1. CASE t = u  BY <1>1, <2>1, <2>3, <3>1 DEF RefreshToken
    <3>2. CASE t # u  BY <1>1, <2>1, <3>2
    <3>3. QED  BY <3>1, <3>2
  <2>5. \A d \in Callers : calls[d].pc = "found" => calls[d].token \in 1..Len(tokens)
    BY DEF Inv, TypeInv, CallPlaced
  <2>6. QED  BY <1>4, <2>1, <2>2, <2>4, <2>5
<1>16. ASSUME NEW a \in {"active", "disabled", "deleted"}, SetAccount(a) PROVE Over(f)'
  BY <1>4, <1>16 DEF SetAccount
<1>17. ASSUME Next PROVE Over(f)'
  BY <1>6, <1>7, <1>10, <1>11, <1>12, <1>13, <1>14, <1>15, <1>16, <1>17 DEF Next, ServerStep, Ops
<1>18. QED  BY <1>5, <1>17

\* Whatever calls are open, whichever commits are lost, and however often old
\* tokens are presented: a session that is over never has a usable token again.
THEOREM OverIsFinal == Spec => OverForGood
<1>1. Inv /\ [Next]_vars => [\A f \in Numbers : Of(f) # {} /\ Over(f) => Over(f)']_vars
  BY OverStep
<1>2. QED  BY <1>1, Invariance, PTL DEF Spec, OverForGood

-----------------------------------------------------------------------------
(* One call at a time.                                                     *)

\* No usable token other than t is held in t's family.
OnlyUsable(t) == \A u \in held : Live(u) /\ Family(u) = Family(t) => u = t

\* What makes OneUsableToken inductive: the token being exchanged is the one
\* usable token of its family, and the one about to be handed over replaces it.
OnlyCall(c) == \A d \in Callers : d # c => calls[d].pc = "idle"

HeldUsable == \A t, u \in held : Live(t) /\ Live(u) /\ Family(t) = Family(u) => t = u

CallUsable(c) ==
  /\ calls[c].pc \in {"found", "issued"} => OnlyUsable(calls[c].token)
  /\ calls[c].pc = "done" /\ calls[c].made # 0 => OnlyUsable(calls[c].made)
  /\ calls[c].pc = "sent" /\ calls[c].op # "signin" => calls[c].token \in held
  /\ calls[c].pc \in {"found", "issued"} => calls[c].token \in held

OneInv ==
  /\ \A c \in Callers : calls[c].pc # "idle" => OnlyCall(c)
  /\ HeldUsable
  /\ \A c \in Callers : CallUsable(c)

\* With one call open, what is said of it is all there is to say.
LEMMA OneCallInv ==
  ASSUME NEW c \in Callers, OnlyCall(c)', CallUsable(c)', HeldUsable'
  PROVE  OneInv'
BY DEF OneInv, OnlyCall, CallUsable

\* The other callers wait while c's call moves.
LEMMA OthersWait ==
  ASSUME TypeOK, NEW c \in Callers, OnlyCall(c), NEW x, calls' = [calls EXCEPT ![c] = x]
  PROVE  OnlyCall(c)' /\ calls'[c] = x
BY DEF TypeOK, OnlyCall

\* With one call at a time, no step leaves two usable tokens of a family.
LEMMA OneStep ==
  ASSUME Inv, OneInv, [Next]_vars, ~overlap
  PROVE  OneInv'
<1>1. TypeOK /\ Len(tokens) \in Nat /\ tokens \in Seq(RefreshToken)  BY DEF Inv, TypeInv, TypeOK
<1>2. held \subseteq 1..Len(tokens)  BY <1>1 DEF TypeOK
<1>3. CASE UNCHANGED vars  BY <1>3 DEF vars, OneInv, OnlyCall, HeldUsable, CallUsable, OnlyUsable, Live, Known, Family
\* A step that rewrites tokens in place and makes none usable.
<1>4. ASSUME held' = held, \A t \in 1..Len(tokens) : Family(t)' = Family(t) /\ (Live(t)' => Live(t)),
             NEW c \in Callers, NEW pc, To(c, pc) \/ calls' = calls,
             To(c, pc) => OnlyCall(c),
             To(c, pc) => \/ pc \in {"refused", "spent", "revoking"}
                          \/ pc = "found" /\ calls[c].pc = "sent" /\ calls[c].op # "signin"
                             /\ Live(calls[c].token)
                          \/ pc = "done" /\ calls[c].pc = "issued" /\ ~Live(calls[c].token)'
                             /\ calls[c].made \in 1..Len(tokens)
                             /\ Family(calls[c].made) = Family(calls[c].token)
                          \/ pc = "done" /\ calls[c].made = 0
      PROVE  OneInv'
  <2>1. HeldUsable'  BY <1>2, <1>4 DEF OneInv, HeldUsable
  <2>2. \A t \in 1..Len(tokens) : OnlyUsable(t) => OnlyUsable(t)'
    BY <1>2, <1>4 DEF OnlyUsable
  <2>3. CallPlaced(c) /\ calls[c] \in Calls  BY <1>1 DEF Inv, TypeInv, TypeOK
  <2>4. CASE calls' = calls
    <3>1. \A d \in Callers :
            /\ calls[d].pc \in {"found", "issued"} => calls[d].token \in 1..Len(tokens)
            /\ calls[d].pc = "done" /\ calls[d].made # 0 => calls[d].made \in 1..Len(tokens)
      BY <1>1 DEF Inv, TypeInv, CallPlaced
    <3>2. \A d \in Callers : CallUsable(d)'
      BY <1>4, <2>2, <2>4, <3>1 DEF OneInv, CallUsable
    <3>3. QED  BY <2>1, <2>4, <3>2 DEF OneInv, OnlyCall
  <2>5. CASE To(c, pc)
    <3>1. /\ calls'[c].pc = pc /\ calls'[c].token = calls[c].token /\ calls'[c].made = calls[c].made
          /\ calls'[c].op = calls[c].op
      BY <1>1, <2>5 DEF To, TypeOK, Calls
    <3>0. OnlyCall(c)'
      BY <1>1, <1>4, <2>5, OthersWait DEF To, TypeOK
    <3>2. CASE pc \in {"refused", "spent", "revoking"} \/ (pc = "done" /\ calls[c].made = 0)
      <4>1. CallUsable(c)'  BY <3>1, <3>2 DEF CallUsable
      <4>2. QED  BY <2>1, <3>0, <4>1, OneCallInv
    <3>3. CASE pc = "found" /\ calls[c].pc = "sent" /\ calls[c].op # "signin" /\ Live(calls[c].token)
      <4>1. PICK t \in held : t = calls[c].token  BY <3>3 DEF OneInv, CallUsable
      <4>2. OnlyUsable(t)  BY <3>3, <4>1 DEF OneInv, HeldUsable, OnlyUsable
      <4>3. OnlyUsable(t)'  BY <1>2, <2>2, <4>1, <4>2
      <4>4. calls'[c].token = t /\ calls'[c].pc = "found"  BY <3>1, <3>3, <4>1
      <4>5. CallUsable(c)'  BY <1>4, <4>1, <4>3, <4>4 DEF CallUsable, OnlyUsable
      <4>6. QED  BY <2>1, <3>0, <4>5, OneCallInv
    <3>4. CASE /\ pc = "done" /\ calls[c].pc = "issued" /\ ~Live(calls[c].token)'
               /\ calls[c].made \in 1..Len(tokens)
               /\ Family(calls[c].made) = Family(calls[c].token)
      <4>1. PICK t \in held : t = calls[c].token /\ OnlyUsable(t)
        BY <3>4 DEF OneInv, CallUsable
      <4>2. PICK n \in 1..Len(tokens) : n = calls[c].made  BY <3>4
      <4>3. ~Live(t)' /\ Family(n) = Family(t)
        <5>1. ~Live(t)'  BY <2>5, <3>1, <3>4, <4>1 DEF Live, Known
        <5>2. QED  BY <3>4, <4>1, <4>2, <5>1
      <4>4. OnlyUsable(n)'  BY <1>2, <1>4, <4>1, <4>3 DEF OnlyUsable
      <4>5. calls'[c].made = n /\ calls'[c].pc = "done"  BY <3>1, <3>4, <4>2
      <4>6. CallUsable(c)'  BY <4>4, <4>5 DEF CallUsable, OnlyUsable
      <4>7. QED  BY <2>1, <3>0, <4>6, OneCallInv
    <3>5. QED  BY <1>4, <2>5, <3>2, <3>3, <3>4
  <2>6. QED  BY <1>4, <2>4, <2>5
\* A new token, not held by anybody yet.
<1>5. ASSUME NEW c \in Callers, NEW g \in Numbers, NEW pc \in {"done", "issued"}, Insert(c, g, pc),
             UNCHANGED <<overlap, account, held>>, pc = "done" => g = Len(tokens) + 1,
             pc = "issued" => calls[c].pc = "found", OnlyCall(c)
      PROVE  OneInv'
  <2> DEFINE n == Len(tokens) + 1
  <2>0. pc \in Phases /\ Insert(c, g, pc)  BY <1>5 DEF Phases
  <2>1. /\ tokens' \in Seq(RefreshToken) /\ Len(tokens') = Len(tokens) + 1
        /\ Len(tokens') <= MaxTokens
        /\ \A t \in 1..Len(tokens) : t \in 1..Len(tokens') /\ tokens'[t] = tokens[t]
        /\ tokens'[Len(tokens) + 1] =
             [family |-> g, revoked |-> FALSE, expired |-> FALSE, replaced |-> 0]
        /\ calls' = [calls EXCEPT ![c].pc = pc, ![c].made = Len(tokens) + 1]
        /\ calls' \in [Callers -> Calls]
    BY <1>1, <2>0, Inserted
  <2>2. \A t \in 1..Len(tokens) : Family(t)' = Family(t) /\ (Live(t)' => Live(t))
    BY <1>5, <2>1 DEF Family, Live, Known
  <2>3. HeldUsable'  BY <1>2, <1>5, <2>2 DEF OneInv, HeldUsable
  <2>4. /\ calls'[c].pc = pc /\ calls'[c].token = calls[c].token /\ calls'[c].made = n
    BY <1>1, <2>1 DEF TypeOK, Calls
  <2>5. OnlyCall(c)'  BY <1>1, <1>5, <2>1 DEF OnlyCall, TypeOK
  <2>6. CASE pc = "done"
    <3>1. \A u \in held : Family(u)' # n
      BY <1>1, <1>2, <2>2 DEF Family, Inv, TypeInv, FamiliesNamed, RefreshToken, Numbers
    <3>2. PICK m \in Numbers : m = n  BY <1>5, <2>6
    <3>3. OnlyUsable(m)'  BY <1>5, <2>1, <2>6, <3>1, <3>2 DEF OnlyUsable, Family
    <3>4. CallUsable(c)'  BY <2>4, <2>6, <3>2, <3>3 DEF CallUsable, OnlyUsable
    <3>5. QED  BY <2>3, <2>5, <3>4, OneCallInv
  <2>7. CASE pc = "issued"
    <3>1. PICK t \in held : t = calls[c].token /\ OnlyUsable(t)
      BY <1>5, <2>7 DEF OneInv, CallUsable
    <3>2. OnlyUsable(t)'  BY <1>2, <1>5, <2>2, <3>1 DEF OnlyUsable
    <3>3. CallUsable(c)'  BY <1>5, <2>4, <2>7, <3>1, <3>2 DEF CallUsable, OnlyUsable
    <3>4. QED  BY <2>3, <2>5, <3>3, OneCallInv
  <2>8. QED  BY <2>6, <2>7
<1>6. ASSUME NEW c \in Callers, NEW op \in Ops, NEW t, op # "signin" => t \in held, Send(c, op, t)
      PROVE  OneInv'
  <2>1. calls'[c] = [op |-> op, pc |-> "sent", token |-> t, made |-> 0]  BY <1>1, <1>6 DEF Send, TypeOK
  <2>2. OnlyCall(c)'  BY <1>1, <1>6, OthersWait DEF Send, OnlyCall
  <2>3. HeldUsable'  BY <1>6 DEF Send, OneInv, HeldUsable, Live, Known, Family
  <2>4. CallUsable(c)'  BY <1>6, <2>1 DEF Send, CallUsable
  <2>5. QED  BY <2>2, <2>3, <2>4, OneCallInv
<1>7. ASSUME NEW c \in Callers, Receive(c) \/ Lose(c) PROVE OneInv'
  <2>1. calls'[c].pc = "idle"  BY <1>1, <1>7 DEF Receive, Lose, NoCall, TypeOK
  <2>2. OnlyCall(c)'
    <3>1. calls[c].pc # "idle"  BY <1>7 DEF Receive, Lose
    <3>2. QED  BY <1>1, <1>7, <3>1, OthersWait DEF Receive, Lose, OneInv
  <2>3. UNCHANGED <<tokens, account>>  BY <1>7 DEF Receive, Lose
  <2>4. \A t, u \in held' : Live(t) /\ Live(u) /\ Family(t) = Family(u) => t = u
    <3>1. \/ held' = held
          \/ /\ held' = held \cup {calls[c].made}
             /\ calls[c].pc = "done" /\ calls[c].made # 0
      BY <1>7 DEF Receive, Lose
    <3>2. QED  BY <3>1 DEF OneInv, HeldUsable, CallUsable, OnlyUsable
  <2>5. HeldUsable'  BY <2>3, <2>4 DEF HeldUsable, Live, Known, Family
  <2>6. CallUsable(c)'  BY <2>1 DEF CallUsable
  <2>7. QED  BY <2>2, <2>5, <2>6, OneCallInv
<1>8. ASSUME NEW c \in Callers, SignIn(c) PROVE OneInv'
  <2>0. OnlyCall(c)  BY <1>8 DEF SignIn, OneInv
  <2>1. CASE account = "active"
    <3>1. Insert(c, Len(tokens) + 1, "done") /\ UNCHANGED <<overlap, account, held>>
      BY <1>8, <2>1 DEF SignIn
    <3>2. Len(tokens) + 1 \in Numbers  BY <1>1, <3>1, TokensAssumption DEF Insert, Numbers
    <3>3. QED  BY <1>5, <2>0, <3>1, <3>2
  <2>2. CASE account # "active"
    <3>1. To(c, "refused") /\ UNCHANGED <<overlap, tokens, account, held>>  BY <1>8, <2>2 DEF SignIn
    <3>2. QED  BY <1>4, <2>0, <3>1 DEF Live, Known, Family
  <2>3. QED  BY <2>1, <2>2
<1>9. ASSUME NEW c \in Callers, Lookup(c) PROVE OneInv'
  <2>0. OnlyCall(c)  BY <1>9 DEF Lookup, OneInv
  <2>1. UNCHANGED <<overlap, tokens, account, held>> /\ calls[c].pc = "sent" /\ calls[c].op # "signin"
    BY <1>9 DEF Lookup
  <2>2. PICK pc \in {"refused", "revoking", "spent", "found"} :
          To(c, pc) /\ (pc = "found" => Live(calls[c].token))
    BY <1>9 DEF Lookup, Live
  <2>3. \A t \in 1..Len(tokens) : Family(t)' = Family(t) /\ (Live(t)' => Live(t))
    BY <2>1 DEF Live, Known, Family
  <2>4. To(c, pc) => \/ pc \in {"refused", "spent", "revoking"}
                     \/ pc = "found" /\ calls[c].pc = "sent" /\ calls[c].op # "signin"
                        /\ Live(calls[c].token)
    BY <2>1, <2>2
  <2>5. QED  BY <1>4, <2>0, <2>1, <2>2, <2>3, <2>4
<1>10. ASSUME NEW c \in Callers, RevokeFamily(c) PROVE OneInv'
  <2>0. OnlyCall(c)  BY <1>10 DEF RevokeFamily, OneInv
  <2>1. UNCHANGED <<overlap, account, held>>  BY <1>10 DEF RevokeFamily
  <2>2. PICK pc \in {"refused", "done"} : To(c, pc)  BY <1>10 DEF RevokeFamily
  <2>3. calls[c].made = 0  BY <1>10 DEF RevokeFamily, Inv, TypeInv, CallPlaced
  <2>4. tokens' = tokens \/ tokens' = Revoke(Family(calls[c].token))  BY <1>10 DEF RevokeFamily
  <2>5. /\ Len(tokens') = Len(tokens)
        /\ \A t \in 1..Len(tokens) : /\ tokens[t].revoked => tokens'[t].revoked
                                     /\ tokens'[t].family = tokens[t].family
                                     /\ tokens'[t].expired = tokens[t].expired
    <3>1. CASE tokens' = tokens  BY <3>1
    <3>2. CASE tokens' = Revoke(Family(calls[c].token))  BY <1>1, <3>2, Revoked
    <3>3. QED  BY <2>4, <3>1, <3>2
  <2>6. \A t \in 1..Len(tokens) : Family(t)' = Family(t) /\ (Live(t)' => Live(t))
    BY <2>1, <2>5 DEF Live, Known, Family
  <2>7. QED  BY <1>4, <2>0, <2>1, <2>2, <2>3, <2>6
<1>11. ASSUME NEW c \in Callers, Issue(c) PROVE OneInv'
  <2>0. OnlyCall(c)  BY <1>11 DEF Issue, OneInv
  <2>1. CASE account = "active"
    <3>1. calls[c].pc = "found" /\ Insert(c, Family(calls[c].token), "issued")
          /\ UNCHANGED <<overlap, account, held>>
      BY <1>11, <2>1 DEF Issue
    <3>2. calls[c].token \in 1..Len(tokens)  BY <3>1 DEF Inv, TypeInv, CallPlaced
    <3>3. tokens[calls[c].token] \in RefreshToken  BY <1>1, <3>2
    <3>4. Family(calls[c].token) \in Numbers  BY <3>3 DEF Family, RefreshToken
    <3>5. QED  BY <1>5, <2>0, <3>1, <3>4
  <2>2. CASE account # "active"
    <3>1. To(c, "refused") /\ UNCHANGED <<overlap, tokens, account, held>>  BY <1>11, <2>2 DEF Issue
    <3>2. QED  BY <1>4, <2>0, <3>1 DEF Live, Known, Family
  <2>3. QED  BY <2>1, <2>2
<1>12. ASSUME NEW c \in Callers, Spend(c) PROVE OneInv'
  <2>0. OnlyCall(c)  BY <1>12 DEF Spend, OneInv
  <2>1. CASE account = "deleted"
    <3>1. To(c, "refused") /\ UNCHANGED <<overlap, tokens, account, held>>  BY <1>12, <2>1 DEF Spend
    <3>2. QED  BY <1>4, <2>0, <3>1 DEF Live, Known, Family
  <2>2. CASE account # "deleted"
    <3> DEFINE u == calls[c].token
    <3>1. /\ calls[c].pc = "issued" /\ u \in 1..Len(tokens) /\ calls[c].made \in (u + 1)..Len(tokens)
          /\ Family(calls[c].made) = Family(u)
      BY <1>12 DEF Spend, Inv, TypeInv, CallPlaced
    <3>2. tokens' = [tokens EXCEPT ![u].revoked = TRUE, ![u].replaced = calls[c].made]
          /\ To(c, "done") /\ UNCHANGED <<overlap, account, held>>
      BY <1>12, <2>2 DEF Spend
    <3>3. tokens[u] \in RefreshToken /\ Len(tokens') = Len(tokens)  BY <1>1, <3>1, <3>2
    <3>4. tokens'[u].revoked /\ tokens'[u].family = tokens[u].family
      BY <1>1, <3>1, <3>2, <3>3 DEF RefreshToken
    <3>5. \A t \in 1..Len(tokens) : t # u => tokens'[t] = tokens[t]
      BY <1>1, <3>1, <3>2
    <3>6. ~Live(u)'
      <4>1. calls'[c].token = calls[c].token  BY <1>1, <3>2 DEF To, TypeOK, Calls
      <4>2. QED  BY <3>4, <4>1 DEF Live
    <3>7. \A t \in 1..Len(tokens) : Family(t)' = Family(t) /\ (Live(t)' => Live(t))
      BY <3>2, <3>3, <3>4, <3>5 DEF Live, Known, Family
    <3>8. calls[c].made \in 1..Len(tokens)  BY <1>1, <3>1
    <3>9. QED  BY <1>4, <2>0, <3>1, <3>2, <3>6, <3>7, <3>8
  <2>3. QED  BY <2>1, <2>2
<1>13. ASSUME NEW u \in Numbers, Expire(u), NEW c \in Callers PROVE OneInv'
  <2>1. u \in 1..Len(tokens) /\ tokens' = [tokens EXCEPT ![u].expired = TRUE]
        /\ UNCHANGED <<overlap, account, calls, held>>
    BY <1>13 DEF Expire
  <2>2. tokens[u] \in RefreshToken /\ Len(tokens') = Len(tokens)  BY <1>1, <2>1
  <2>3. tokens'[u].expired /\ tokens'[u].family = tokens[u].family
    BY <1>1, <2>1, <2>2 DEF RefreshToken
  <2>4. \A t \in 1..Len(tokens) : t # u => tokens'[t] = tokens[t]  BY <1>1, <2>1
  <2>5. \A t \in 1..Len(tokens) : Family(t)' = Family(t) /\ (Live(t)' => Live(t))
    BY <2>1, <2>2, <2>3, <2>4 DEF Live, Known, Family
  <2>6. ~To(c, "none")
    BY <1>1, <2>1 DEF To, TypeOK, Calls, Phases
  <2>7. QED  BY <1>4, <2>1, <2>5, <2>6
<1>14. ASSUME NEW a \in {"active", "disabled", "deleted"}, SetAccount(a), NEW c \in Callers
       PROVE  OneInv'
  <2>1. UNCHANGED <<tokens, calls, held>> /\ account # "deleted"  BY <1>14 DEF SetAccount
  <2>2. \A t \in 1..Len(tokens) : Family(t)' = Family(t) /\ (Live(t)' => Live(t))
    BY <2>1 DEF Live, Known, Family
  <2>3. ~To(c, "none")  BY <1>1, <2>1 DEF To, TypeOK, Calls, Phases
  <2>4. QED  BY <1>4, <2>1, <2>2, <2>3
<1>15. CASE Callers = {} /\ Next
  <2>1. \A t \in held : Family(t)' = Family(t) /\ (Live(t)' => Live(t))
    <3>1. CASE \E u \in Numbers : Expire(u)
      <4>1. PICK u \in 1..Len(tokens) : tokens' = [tokens EXCEPT ![u].expired = TRUE]
                                        /\ UNCHANGED <<overlap, account, held>>
        BY <3>1 DEF Expire
      <4>2. tokens[u] \in RefreshToken /\ Len(tokens') = Len(tokens)  BY <1>1, <4>1
      <4>3. tokens'[u].expired /\ tokens'[u].family = tokens[u].family
        BY <1>1, <4>1, <4>2 DEF RefreshToken
      <4>4. \A t \in 1..Len(tokens) : t # u => tokens'[t] = tokens[t]  BY <1>1, <4>1
      <4>5. QED  BY <1>2, <4>1, <4>2, <4>3, <4>4 DEF Live, Known, Family
    <3>2. CASE \E a \in {"active", "disabled", "deleted"} : SetAccount(a)
      BY <3>2 DEF SetAccount, Live, Known, Family
    <3>3. QED  BY <1>15, <3>1, <3>2 DEF Next
  <2>2. held' = held  BY <1>15 DEF Next, Expire, SetAccount
  <2>3. QED  BY <1>15, <2>1, <2>2 DEF OneInv, HeldUsable
<1>16. CASE Callers # {} /\ Next
  <2>1. PICK c \in Callers : TRUE  BY <1>16
  <2>2. ASSUME NEW d \in Callers, \/ Send(d, "signin", 0)
                                  \/ \E t \in held : Send(d, "refresh", t) \/ Send(d, "logout", t)
        PROVE OneInv'
    BY <1>6, <2>2 DEF Ops
  <2>3. QED  BY <1>7, <1>8, <1>9, <1>10, <1>11, <1>12, <1>13, <1>14, <1>16, <2>1, <2>2
             DEF Next, ServerStep
<1>17. QED  BY <1>3, <1>15, <1>16

\* Calls go on being made one at a time, or not.
LEMMA OverlapKept == [Next]_vars => UNCHANGED overlap
BY DEF Next, vars, Send, ServerStep, SignIn, Lookup, RevokeFamily, Issue, Spend, Receive, Lose,
       Expire, SetAccount

\* Whatever is lost between the two commits of a rotation, calls made one at a
\* time never leave a caller with two usable tokens of one session.
THEOREM OneUsable == Spec => []OneUsableToken
<1> DEFINE Serial == ~overlap => OneInv
<1>1. Init => Serial
  BY DEF Init, OneInv, NoCall, HeldUsable, CallUsable, OnlyCall
<1>2. Inv /\ Serial /\ [Next]_vars => Serial'
  BY OneStep, OverlapKept
<1>3. Serial => OneUsableToken  BY DEF OneInv, HeldUsable, OneUsableToken
<1>4. QED  BY <1>1, <1>2, <1>3, Invariance, PTL DEF Spec
=============================================================================
