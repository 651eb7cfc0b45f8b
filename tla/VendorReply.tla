----------------------------- MODULE VendorReply -----------------------------
(***************************************************************************)
(* What a vendor's reply to a call comes to: the ladder's verdict on it,   *)
(* read from the status and, for a 401 or 403, from the text.              *)
(*                                                                         *)
(* A text is the sequence of its words, and a word is what the matcher can *)
(* tell of it: a subject (account, user, key), a state (banned, suspended, *)
(* deactivated, revoked), one of the fillers, a negation, or any other     *)
(* word.  Texts are not written by hand: each renders one clause about one *)
(* thing, so that what the vendor meant is known whatever the matcher      *)
(* reads.                                                                  *)
(***************************************************************************)
EXTENDS Integers, Sequences

Words == {"subject", "state", "filler", "denial", "word"}

Fillers(n) == [i \in 1..n |-> "filler"]

\* STATE_GAP: the steps a walk from a subject may take.
StateGap == 8

-----------------------------------------------------------------------------
(* What vendors write.                                                      *)

\* A clause puts a thing into a state: "the account has been banned" (forward)
\* or "revoked for this account" (back), with so many fillers between the two;
\* in the long form the thing is "the account associated with this API key".
\* It states it, supposes it ("if your account ...") or denies it, the denial
\* ahead of both ("no account was ...") or between them ("has not been").  Live
\* copy is the vendor's own wording.  An aside is an earlier clause that names
\* the account to say that nothing is wrong with it.
Clauses(gaps) ==
  {c \in [thing : {"account", "other"}, long : BOOLEAN, order : {"forward", "back"},
          mood : {"states", "supposes", "denies_ahead", "denies_between"},
          gap : gaps, live : BOOLEAN, aside : BOOLEAN] :
     c.live => c.thing = "account" /\ c.order = "forward" /\ c.gap = 2}

Thing(c) ==
  CASE c.thing = "other" -> <<"word">>
    [] c.thing = "account" /\ c.long ->
         <<"subject">> \o Fillers(3) \o <<"filler", "subject">>
    [] OTHER -> <<"subject">>

Between(c) ==
  IF c.mood = "denies_between" THEN <<"filler", "denial">> \o Fillers(c.gap)
  ELSE Fillers(c.gap)

Text(c) ==
  (IF c.aside THEN <<"word", "subject", "filler", "word">> ELSE <<>>)
    \o (CASE c.mood = "supposes" -> <<"word">>
          [] c.mood = "denies_ahead" -> <<"denial", "filler">>
          [] OTHER -> <<"filler">>)
    \o (IF c.order = "forward" THEN Thing(c) \o Between(c) \o <<"state">>
        ELSE <<"state">> \o Between(c) \o Thing(c))
    \o <<"word">>

\* The wording the exact tiers look for: "account has been banned" and "the
\* account associated with this API key has been deactivated".
LiveCopy(v) ==
  IF v = "firecrawl" THEN <<"subject", "filler", "filler", "state">>
  ELSE <<"filler", "subject", "filler", "filler", "filler", "filler",
         "subject", "filler", "filler", "state">>

-----------------------------------------------------------------------------
(* The matcher (banned.rs).                                                 *)

FillersOnly(t, from, to) == \A k \in from..to : t[k] = "filler"

\* Mutant: a denial counts only right in front of its subject.
IsNegatedNext(t, i) == i > 1 /\ t[i - 1] = "denial"

\* A negation governs the subject at i: only fillers stand between them.
IsNegated(t, i) ==
  \E b \in 1..(i - 1) : t[b] = "denial" /\ FillersOnly(t, b + 1, i - 1)

\* Some subject that no negation governs and some state are in reach of each
\* other, either first, with nothing but fillers between.
HasAccountStatePhrase(t) ==
  \E i, j \in DOMAIN t :
    /\ t[i] = "subject" /\ ~IsNegated(t, i)
    /\ t[j] = "state"
    /\ j - i \in (-StateGap)..StateGap
    /\ FillersOnly(t, i + 1, j - 1) /\ FillersOnly(t, j + 1, i - 1)

Contains(t, copy) ==
  \E i \in 0..(Len(t) - Len(copy)) : \A k \in DOMAIN copy : t[i + k] = copy[k]

StatusGate(status) == status \in {401, 403}

\* The exact wording, whatever stands around it.
HasLiveCopy(v, c) == c.live /\ Contains(Text(c), LiveCopy(v))

\* Firecrawl: its exact copy.  Tavily: its exact copy or the phrase.  Others: the
\* phrase.
IsAccountBanned(v, status, c) ==
  /\ StatusGate(status)
  /\ \/ v \in {"firecrawl", "tavily"} /\ HasLiveCopy(v, c)
     \/ v # "firecrawl" /\ HasAccountStatePhrase(Text(c))

-----------------------------------------------------------------------------
(* The verdict (exhausted.rs, verdict_for).                                 *)

IsExhaustedStatus(v, status) ==
  \/ v = "tavily" /\ status \in {429, 432, 433}
  \/ v \in {"firecrawl", "exa"} /\ status \in {402, 429}
  \/ v = "xai" /\ status = 429

\* A reply that is no answer: a refusal by our own client, before anything is
\* sent; a failure on the wire, which a 2xx that cannot be read is as well; or
\* an HTTP status with a text.
UpstreamReplies(statuses, clauses) ==
  [kind : {"upstream"}, status : statuses, text : clauses]

LocalReplies == {[kind |-> "unsupported"], [kind |-> "http"]}

UpstreamVerdict(v, status, c) ==
  IF status = 402 THEN "paid"
  ELSE IF IsExhaustedStatus(v, status) THEN "exhausted"
  ELSE IF IsAccountBanned(v, status, c) THEN "banned"
  ELSE IF status \in {401, 403} THEN "auth"
  ELSE IF status = 429 \/ status \in 500..599 THEN "retryable"
  ELSE "failed"

\* verdict_for.  "refused" is the Failure of a call that our own client refused.
VerdictFor(v, r) ==
  IF r.kind = "unsupported" THEN "refused"
  ELSE IF r.kind = "http" THEN "retryable"
  ELSE UpstreamVerdict(v, r.status, r.text)

-----------------------------------------------------------------------------
(* What the vendor meant, by construction of the text.                      *)

\* A denial or a supposition the matcher is known to take for a ban: it does
\* not know "if", a denial ahead of a state that comes first governs no subject,
\* in the long form it governs the first of two subjects only, and the exact
\* wording is found behind any denial.
Misread(v, c) ==
  /\ c.thing = "account"
  /\ \/ c.mood = "supposes"
     \/ c.mood = "denies_ahead" /\ (c.order = "back" \/ c.long)
     \/ c.mood = "denies_ahead" /\ HasLiveCopy(v, c)

\* Firecrawl's rows are deleted, so only its own wording is taken for a ban.
InReach(v, c) == IF v = "firecrawl" THEN HasLiveCopy(v, c) ELSE c.gap < StateGap

Meanings == {"nothing", "spent", "closed", "unauthorized"}

\* What a reply says of the account the key belongs to: that its credit or quota
\* is used up, that it is closed (or what the matcher is known to take for
\* that), or only that the call was not authorized.
Meaning(v, r) ==
  IF r.kind # "upstream" THEN "nothing"
  ELSE IF r.status \in {402, 429, 432, 433} THEN "spent"
  ELSE IF r.status \notin {401, 403} THEN "nothing"
  ELSE IF /\ r.text.thing = "account" /\ InReach(v, r.text)
          /\ r.text.mood = "states" \/ Misread(v, r.text)
       THEN "closed"
  ELSE "unauthorized"
=============================================================================
