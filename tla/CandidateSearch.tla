--------------------------- MODULE CandidateSearch ---------------------------
(***************************************************************************)
(* A candidate search on the shared connection, beside the enrollments and *)
(* erasures of SharedConnection.  Between its awaits a search computes the *)
(* live embedding's bucket keys, selects its candidates, reads a row of    *)
(* personnel for each, has its DEK unwrapped and its embedding decrypted;  *)
(* it rejects as a whole when one candidate cannot be opened.  Nothing     *)
(* keeps the rows, or the keys they are wrapped under, in place meanwhile. *)
(*                                                                         *)
(* An action is the code between two awaits.  One search stands for any    *)
(* number of them: a search changes nothing that another could see.        *)
(***************************************************************************)
EXTENDS SharedConnection

VARIABLES
  search,    \* the search in flight, or how the last one ended
  past       \* history only: what happened since the search was called

searchVars == <<search, past>>

-----------------------------------------------------------------------------
(* What the tables hold of a person, and who is a candidate.               *)

\* The 32 random bytes of an enrollment: no two people get the same.
DEK(p) == <<"dek", p>>

\* What a personnel row holds of its person.
PersonnelRow(p) == [encrypted_embed |-> encrypt(Face[p], p, DEK(p)),
                    kek_hw_wrapped |-> wrapDEK(p, DEK(p))]

ASSUME RejectedAssumption ==
  Rejected \notin Faces /\ \A p \in People : Rejected # DEK(p)

\* One row of lsh_index for each band of an indexed person.
BucketKeys == [e \in Faces |-> computeBucketKeys(e)]

\* Whoever is indexed and in one of the live embedding's buckets.
Hits(live) ==
  {p \in db.lsh : ShareBucket(BucketKeys[Face[p]], BucketKeys[live])}

-----------------------------------------------------------------------------
(* The search.  Its rows are those of the people in left (chosen, not yet  *)
(* read), wrapped (read, the DEK being unwrapped), unwrapped (with the     *)
(* DEK) and found (with the embedding).                                    *)

NoSearch == [pc |-> "none", live |-> {}, chosen |-> {}, left |-> {},
             wrapped |-> {}, replaced |-> {}, unwrapped |-> {}, found |-> {}]

NoPast == [raced |-> {}, there |-> {}, threw |-> FALSE]

Running == search.pc \in {"hash", "open"}

\* The steps at which an enrollment shows an index row without its person, or
\* an erasure has taken the person's rows or key away.
InFlightRaces == InFlight({"insert", "purged", "destroyed"})

SearchInit == Init /\ search = NoSearch /\ past = NoPast

\* query throws at once for an embedding that is not normalised.
CallQuery(live) ==
  /\ ~Running
  /\ live \in Normalised
  /\ search' = [NoSearch EXCEPT !.pc = "hash", !.live = {live}]
  /\ past' = [raced |-> InFlightRaces, there |-> Committed.person, threw |-> FALSE]
  /\ UNCHANGED vars

\* Mutant: a step that no part of the search knows.
RejectUntyped(s) == search' = [NoSearch EXCEPT !.pc = "failed", !.chosen = s.chosen]

\* What a rejected search leaves; it had the candidates of s.
Reject(s) == search' = [NoSearch EXCEPT !.pc = "rejected", !.chosen = s.chosen]

\* decryptEmbedding reads the row of p, which has to be there.
ReadRow(s, p) ==
  IF p \in db.person
  THEN search' = [s EXCEPT !.left = @ \ {p}, !.wrapped = @ \cup {p}]
  ELSE Reject(s)

\* The search s goes on: it waits for what it has called, or reads the next
\* row of the linear scan, or returns.
GoOn(s) ==
  \/ s.wrapped \cup s.unwrapped # {} /\ search' = s
  \/ /\ s.wrapped \cup s.unwrapped = {}
     /\ \E p \in s.left : ReadRow(s, p)
  \/ /\ s.wrapped \cup s.unwrapped \cup s.left = {}
     /\ search' = [s EXCEPT !.pc = "answered"]

\* The bucket keys are there.  With hits, Promise.all reads all their rows at
\* once; without, everybody active is scanned, one after the other.
Select ==
  /\ search.pc = "hash"
  /\ \E live \in search.live :
       IF Hits(live) # {}
       THEN LET s == [search EXCEPT !.pc = "open", !.chosen = Hits(live)] IN
            IF Hits(live) \subseteq db.person
            THEN search' = [s EXCEPT !.wrapped = Hits(live)]
            ELSE Reject(s)
       ELSE GoOn([search EXCEPT !.pc = "open", !.chosen = db.person,
                                !.left = db.person])
  /\ UNCHANGED vars /\ UNCHANGED past

\* Mutant: a DEK that cannot be unwrapped drops the candidate.
UnwrapSkips(p) ==
  LET s == [search EXCEPT !.wrapped = @ \ {p}, !.replaced = @ \ {p}]
      dek == unwrapDEK(p, PersonnelRow(p).kek_hw_wrapped, keys \ search.replaced)
  IN  /\ search.pc = "open" /\ p \in search.wrapped
      /\ IF dek = Rejected
         THEN GoOn(s)
         ELSE search' = [s EXCEPT !.unwrapped = @ \cup {<<p, dek>>}]
      /\ UNCHANGED vars /\ UNCHANGED past

\* The DEK is unwrapped, with the alias that wrapped it if that is still there;
\* decrypt is called.
Unwrap(p) ==
  LET dek == unwrapDEK(p, PersonnelRow(p).kek_hw_wrapped, keys \ search.replaced)
  IN  /\ search.pc = "open" /\ p \in search.wrapped
      /\ IF dek = Rejected
         THEN Reject(search)
         ELSE search' = [search EXCEPT !.wrapped = @ \ {p}, !.replaced = @ \ {p},
                                       !.unwrapped = @ \cup {<<p, dek>>}]
      /\ UNCHANGED vars /\ UNCHANGED past

\* The embedding is decrypted.
Open(p, dek) ==
  LET e == decrypt(PersonnelRow(p).encrypted_embed, p, dek)
  IN  /\ search.pc = "open" /\ <<p, dek>> \in search.unwrapped
      /\ IF e = Rejected
         THEN Reject(search)
         ELSE GoOn([search EXCEPT !.unwrapped = @ \ {<<p, dek>>},
                                  !.found = @ \cup {<<p, e>>}])
      /\ UNCHANGED vars /\ UNCHANGED past

\* computeBucketKeys, unwrapDEK or decrypt throws for a reason of its own.
SearchThrows ==
  /\ Running
  /\ Reject(search)
  /\ past' = [past EXCEPT !.threw = TRUE]
  /\ UNCHANGED vars

\* A key that is destroyed no longer unwraps what was read before, not even
\* when another is generated under its alias.
Meanwhile ==
  /\ search' = [search EXCEPT !.replaced = @ \cup (search.wrapped \cap (keys \ keys'))]
  /\ past' = IF Running
             THEN [past EXCEPT !.raced = @ \cup InFlightRaces',
                               !.there = @ \cap Committed'.person]
             ELSE past

SearchStep ==
  \/ \E live \in Faces : CallQuery(live)
  \/ Select
  \/ \E p \in People : Unwrap(p) \/ Open(p, DEK(p))
  \/ SearchThrows

SearchNext ==
  \/ Step /\ Meanwhile
  \/ Kill /\ search' = NoSearch /\ past' = NoPast
  \/ SearchStep

SearchSpec == SearchInit /\ [][SearchNext]_<<vars, searchVars>>

-----------------------------------------------------------------------------
(* Properties.                                                             *)

\* The search and its history have their types.
SearchVarsOK ==
  /\ search \in [pc : {"none", "hash", "open", "answered", "rejected"},
                 live : SUBSET Faces, chosen : SUBSET People,
                 left : SUBSET People, wrapped : SUBSET People,
                 replaced : SUBSET People,
                 unwrapped : SUBSET {<<p, DEK(p)>> : p \in People},
                 found : SUBSET (People \X Faces)]
  /\ past \in [raced : SUBSET People, there : SUBSET People, threw : BOOLEAN]

\* The connection, the tasks and the search have their types.
SearchTypeOK == TypeOK /\ SearchVarsOK

\* A search rejects, over all its awaits, only if a native call threw or an
\* enrollment or erasure of one of its own candidates went by while it ran,
\* unless a key was destroyed by an erasure that did not commit, or a
\* transaction was ended by a call that had not opened it.
RejectsForACause ==
  search.pc = "rejected" =>
    \/ hist.stolen \/ hist.shredded \/ past.threw
    \/ search.chosen \cap past.raced # {}

\* A search that answers has, of each candidate it chose, the embedding that
\* was enrolled and no other; and whoever shares a bucket with the live
\* embedding and was enrolled all the while is among them, unless an erasure
\* of that person went by or a transaction was ended by a call that had not
\* opened it.
AnswersAreWhole ==
  search.pc = "answered" =>
    /\ search.found = {<<p, Face[p]>> : p \in search.chosen}
    /\ \/ hist.stolen
       \/ \A live \in search.live : \A p \in past.there \ past.raced :
            ShareBucket(BucketKeys[Face[p]], BucketKeys[live]) =>
              p \in search.chosen
=============================================================================
