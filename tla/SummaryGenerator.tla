------------------------- MODULE SummaryGenerator -------------------------
(***************************************************************************)
(* summary/openai_compatible.py: the transcript is summarised in one       *)
(* request, or cut into chunks that fit the token budget, whose summaries  *)
(* are merged until they fit one request.  A legacy policy audits the      *)
(* result, asks for two revisions and repairs what can be repaired.        *)
(*                                                                         *)
(* A character is "c" (CJK, one token), "l" (any other, a quarter) or "n"  *)
(* (a newline, a quarter); what the audit looks for is reduced to one      *)
(* violation that can be repaired and one that cannot.                     *)
(***************************************************************************)
EXTENDS Naturals, Sequences, FiniteSets, SequencesExt

CONSTANTS
  Texts,        \* transcripts
  Replies,      \* what the provider may answer, stripped and not empty
  Budgets,      \* input_token_budget
  FixedTokens,  \* tokens of the rules, the template and the reference
  FixedOther,   \* other than CJK characters that are always in the user prompt
  NoteTokens,   \* tokens of the note beside an excerpt or intermediate summaries
  MaxRounds     \* the merge rounds before giving up: 8

ASSUME SummaryAssumption ==
  /\ Texts \subseteq Seq({"c", "l", "n"}) /\ Replies \subseteq Seq({"c", "l", "n"})
  /\ \A r \in Replies : r # <<>> /\ r[1] # "n" /\ Last(r) # "n"
  /\ Budgets \subseteq Nat /\ {FixedTokens, FixedOther, NoteTokens, MaxRounds} \subseteq Nat

VARIABLES
  sumStage,   \* "new", "planned" and "calling" over pieces, "audit", and at the end
              \* "summary" or "failed"
  policy,     \* _resolve_summary_policy
  budget,     \* summary["input_token_budget"]
  mode,       \* what the pieces are: the "single" input, "chunks", "groups" of a merge
              \* round, or the "final" merge
  source,     \* the text that was cut into pieces, until the first of them is sent
  pieces,     \* the inputs still to be sent
  sentKind,   \* the prompt they are sent with
  replies,    \* local_summaries, next_round
  index,      \* the next chunk_index
  rounds,     \* merge rounds
  slots,      \* the request slots of the idempotency keys used so far
  faults,     \* what the audit finds in the draft
  mustRevise  \* reference_audit_required, until the first revision

sumVars == <<sumStage, policy, budget, mode, source, pieces, sentKind, replies, index, rounds,
             slots, faults, mustRevise>>

Audited == {"legacy"}
Policies == {"legacy", "generation_first", "mutual_check"}
Faults == {"repairable", "other"}

-----------------------------------------------------------------------------
(* Tokens and chunks. *)

CountOf(s, symbols) == Cardinality({i \in DOMAIN s : s[i] \in symbols})

\* _estimate_prompt_tokens.
PromptTokens(s, kind) ==
  FixedTokens + (IF kind = "transcript" THEN 0 ELSE NoteTokens)
    + CountOf(s, {"c"}) + (FixedOther + CountOf(s, {"l", "n"}) + 3) \div 4

Fits(s, kind, limit) == PromptTokens(s, kind) <= limit

Stripped(s) ==
  LET content == {i \in DOMAIN s : s[i] # "n"} IN
  IF content = {} THEN <<>> ELSE SubSeq(s, Min(content), Max(content))

\* One step of the binary search for the longest prefix of rest that fits.
SearchNext(search, rest, kind, limit) ==
  LET middle == (search.low + search.high) \div 2 IN
  IF search.low > search.high THEN search
  ELSE IF Fits(SubSeq(rest, 1, middle), kind, limit)
    THEN [low |-> middle + 1, high |-> search.high, best |-> middle]
  ELSE [low |-> search.low, high |-> middle - 1, best |-> search.best]

\* Each step makes low .. high smaller, so there are at most Len(rest) of them.
LongestFit(rest, kind, limit) ==
  LET after[n \in 0 .. Len(rest)] ==
        IF n = 0 THEN [low |-> 1, high |-> Len(rest), best |-> 0]
        ELSE SearchNext(after[n - 1], rest, kind, limit)
  IN after[Len(rest)].best

\* Mutated form: the text after a paragraph break is taken from the end of the prefix.
CutBeforeBreak(s, cursor, end) ==
  [upTo |-> LET breaks == {b \in cursor + 1 .. end - 2 : s[b + 1] = "n" /\ s[b + 2] = "n"} IN
            IF end < Len(s) /\ breaks # {} THEN Max(breaks) ELSE end,
   goOn |-> end]

\* A chunk ends at the last paragraph break of the prefix that fits, unless
\* that is where it starts, and the next chunk starts there.
Cut(s, cursor, end) ==
  LET breaks == {b \in cursor + 1 .. end - 2 : s[b + 1] = "n" /\ s[b + 2] = "n"}
      at == IF end < Len(s) /\ breaks # {} THEN Max(breaks) ELSE end IN
  [upTo |-> at, goOn |-> at]

TooLarge == [fits |-> FALSE, chunks |-> <<>>]

\* One turn of the loop: the next chunk is cut off and the cursor moves on.
ChunkNext(cutting, s, kind, limit) ==
  LET best == LongestFit(SubSeq(s, cutting.cursor + 1, Len(s)), kind, limit)
      cut == Cut(s, cutting.cursor, cutting.cursor + best)
      chunk == Stripped(SubSeq(s, cutting.cursor + 1, cut.upTo)) IN
  IF cutting.cursor = Len(s) \/ ~cutting.fits THEN cutting
  ELSE IF best = 0 THEN [cutting EXCEPT !.fits = FALSE]
  ELSE [cursor |-> cut.goOn, fits |-> TRUE,
        chunks |-> IF chunk = <<>> THEN cutting.chunks ELSE Append(cutting.chunks, chunk)]

\* _chunk_text_for_budget.  The cursor moves in each turn, so Len(s) are enough.
ChunkText(s, kind, limit) ==
  LET wholeKind == IF kind = "transcript_excerpt" THEN "transcript" ELSE kind
      after[n \in 0 .. Len(s)] ==
        IF n = 0 THEN [cursor |-> 0, fits |-> TRUE, chunks |-> <<>>]
        ELSE ChunkNext(after[n - 1], s, kind, limit)
      done == after[Len(s)]
  IN IF s = <<>> \/ Fits(s, wholeKind, limit) THEN [fits |-> TRUE, chunks |-> <<s>>]
     ELSE IF PromptTokens(<<>>, kind) >= limit \/ ~done.fits THEN TooLarge
     ELSE [fits |-> TRUE, chunks |-> done.chunks]

JoinedReplies(rs) == FlattenSeq([i \in DOMAIN rs |-> IF i = 1 THEN rs[i] ELSE <<"n", "n">> \o rs[i]])

-----------------------------------------------------------------------------
(* summarize(). *)

Plan(stage, m, src, ps, kind) ==
  /\ sumStage' = stage
  /\ mode' = m /\ source' = src /\ pieces' = ps /\ sentKind' = kind

SumFails == Plan("failed", mode, <<>>, <<>>, sentKind)

\* The strategy is resolved and the transcript cut.
SumBegins ==
  /\ sumStage = "new"
  /\ policy' \in Policies /\ budget' \in Budgets
  /\ \E text \in Texts, strategy \in {"single_pass", "auto", "hierarchical"} :
       LET kind == IF policy' = "mutual_check" THEN "transcript_excerpt" ELSE "transcript"
           cut == ChunkText(text, kind, budget')
           small == Fits(text, "transcript", budget') IN
       \/ /\ strategy # "hierarchical" /\ small
          /\ Plan("planned", "single", text, <<text>>, "transcript")
       \/ /\ strategy = "single_pass" /\ ~small
          /\ SumFails
       \/ /\ strategy = "hierarchical" \/ (strategy = "auto" /\ ~small)
          /\ IF ~cut.fits THEN SumFails
             ELSE Plan("planned", "chunks", text, cut.chunks,
                       IF Len(cut.chunks) > 1 THEN kind ELSE "transcript")
  /\ UNCHANGED <<replies, index, rounds, slots, faults, mustRevise>>

\* _call_provider, for the next piece: the credential, the request or an empty
\* reply may fail it.
Call ==
  /\ sumStage \in {"planned", "calling"} /\ pieces # <<>>
  /\ \/ /\ \E r \in Replies : replies' = Append(replies, r)
        /\ Plan("calling", mode, <<>>, Tail(pieces), sentKind)
     \/ UNCHANGED replies /\ SumFails
  /\ slots' = Append(slots, <<"chunk", index>>)
  /\ index' = index + 1
  /\ UNCHANGED <<policy, budget, rounds, faults, mustRevise>>

\* The draft is there: a policy without audit returns it.
Draft ==
  /\ sumStage = "calling" /\ pieces = <<>> /\ mode \in {"single", "final"}
  /\ IF policy \notin Audited
       THEN sumStage' = "summary" /\ UNCHANGED <<faults, mustRevise>>
       ELSE /\ faults' \in SUBSET Faults /\ mustRevise' \in BOOLEAN
            /\ sumStage' = IF faults' = {} /\ ~mustRevise' THEN "summary" ELSE "audit"
  /\ UNCHANGED <<policy, budget, mode, source, pieces, sentKind, replies, index, rounds, slots>>

\* Mutated form: each merge round numbers its requests from the number of chunks again.
MergeIndexAgain == Len(replies)

MergeIndex == index

\* _merge_summaries: the summaries are merged at once when they fit, and in
\* groups when they do not.  Chunks of newlines alone leave no summary.
MergeRound ==
  LET candidate == JoinedReplies(replies)
      kind == IF policy = "mutual_check" THEN "intermediate" ELSE "transcript"
      cut == ChunkText(candidate, kind, budget) IN
  /\ sumStage \in {"planned", "calling"} /\ pieces = <<>> /\ mode \in {"chunks", "groups"}
  /\ index' = MergeIndex
  /\ replies' = <<>>
  /\ IF replies = <<>> THEN SumFails /\ UNCHANGED rounds
     ELSE IF Fits(candidate, kind, budget)
       THEN Plan("planned", "final", candidate, <<candidate>>, kind) /\ UNCHANGED rounds
     ELSE IF ~cut.fits \/ rounds = MaxRounds THEN SumFails /\ UNCHANGED rounds
     ELSE Plan("planned", "groups", candidate, cut.chunks, kind) /\ rounds' = rounds + 1
  /\ UNCHANGED <<policy, budget, slots, faults, mustRevise>>

-----------------------------------------------------------------------------
(* _audit_summary_output. *)

RevisionsMade == Cardinality({i \in DOMAIN slots : slots[i][1] = "revision"})

\* One revision, with the whole transcript and the draft in the prompt.
Revise ==
  /\ sumStage = "audit" /\ RevisionsMade < 2
  /\ slots' = Append(slots, <<"revision", RevisionsMade + 1>>)
  /\ mustRevise' = FALSE
  /\ \/ /\ faults' \in SUBSET Faults
        /\ sumStage' = IF faults' = {} THEN "summary" ELSE "audit"
     \/ sumStage' = "failed" /\ UNCHANGED faults
  /\ UNCHANGED <<policy, budget, mode, source, pieces, sentKind, replies, index, rounds>>

Repaired(remaining) == IF remaining = {} THEN "summary" ELSE "failed"

\* The deterministic repair, which may change nothing, help or not, and the
\* audit of what it made.
Repair ==
  /\ sumStage = "audit" /\ RevisionsMade = 2
  /\ \/ /\ sumStage' = "failed" /\ UNCHANGED faults
     \/ /\ "repairable" \in faults
        /\ faults' \in {faults, faults \ {"repairable"}}
        /\ sumStage' = Repaired(faults')
  /\ UNCHANGED <<policy, budget, mode, source, pieces, sentKind, replies, index, rounds, slots, mustRevise>>

-----------------------------------------------------------------------------
SumInit ==
  /\ sumStage = "new" /\ policy = "legacy" /\ budget = 0
  /\ mode = "single" /\ source = <<>> /\ pieces = <<>> /\ sentKind = "transcript"
  /\ replies = <<>> /\ index = 0 /\ rounds = 0
  /\ slots = <<>> /\ faults = {} /\ mustRevise = FALSE

SumNext == SumBegins \/ Call \/ Draft \/ MergeRound \/ Revise \/ Repair

SumSpec == SumInit /\ [][SumNext]_sumVars

-----------------------------------------------------------------------------
(* Properties. *)

SumTypeOK ==
  LET Text(s) == \A i \in DOMAIN s : s[i] \in {"c", "l", "n"} IN
  /\ sumStage \in {"new", "planned", "calling", "audit", "summary", "failed"}
  /\ policy \in Policies /\ budget \in Budgets \cup {0}
  /\ mode \in {"single", "chunks", "groups", "final"}
  /\ sentKind \in {"transcript", "transcript_excerpt", "intermediate"}
  /\ Text(source)
  /\ \A i \in DOMAIN pieces : Text(pieces[i])
  /\ \A i \in DOMAIN replies : replies[i] \in Replies
  /\ index \in Nat /\ rounds \in 0 .. MaxRounds
  /\ Range(slots) \subseteq {"chunk", "revision"} \X Nat
  /\ faults \subseteq Faults /\ mustRevise \in BOOLEAN

\* The characters of a text other than newlines, in order.
Words(s) ==
  LET upTo[n \in 0 .. Len(s)] ==
        IF n = 0 THEN <<>> ELSE IF s[n] = "n" THEN upTo[n - 1] ELSE Append(upTo[n - 1], s[n])
  IN upTo[Len(s)]

\* What is sent is all there is: the pieces of a round hold, in order, every
\* character of the text they were cut from except newlines at the cuts, none
\* is cut off or sent twice, and each request fits the budget (the request
\* for an empty transcript, which is not measured, may not).
PiecesCoverText ==
  sumStage = "planned" =>
    /\ Words(FlattenSeq(pieces)) = Words(source)
    /\ \A i \in DOMAIN pieces : pieces[i] = <<>> \/ Fits(pieces[i], sentKind, budget)

\* Each request of an attempt has a key of its own, so that a provider that
\* honours the idempotency key never answers one with the reply to another.
RequestsDistinct == \A i, j \in DOMAIN slots : slots[i] = slots[j] => i = j
=============================================================================
