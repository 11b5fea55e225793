----------------------------- MODULE Publishing -----------------------------
(***************************************************************************)
(* Publication of predictions on X (social/publishing.py, ledger.py,       *)
(* x_client.py). The post is sent first; prediction, post, content event   *)
(* and the persona's list of recent posts are then written in the session  *)
(* of the caller, which commits, fails or is lost.                         *)
(***************************************************************************)
EXTENDS Naturals, Sequences, FiniteSets

CONSTANTS Prediction,  \* predictions that may be drafted, with their posts
          Poster,      \* processes that publish
          Keep,        \* recent posts the persona remembers (50 in the code)
          MaxPosts     \* bound: posts sent

ASSUME PublishingAssumption ==
    Keep \in Nat \ {0, 1} /\ MaxPosts \in Nat /\ "none" \notin Prediction

VARIABLES public,     \* committed status of a prediction and its post
          external,   \* committed external_post_id, 0 is none
          timeline,   \* what was posted on X: post number to prediction
          told,       \* posts with a committed content event
          persona,    \* committed recent_posts_json, or NoPersona
          posting,    \* publications under way
          forgotten,  \* posts whose session ended without a commit
          contested,  \* predictions two publications were under way for
          jostled     \* posts whose publication met another one

publishingVars ==
    <<public, external, timeline, told, persona, posting, forgotten, contested, jostled>>

NoPersona == <<0>>
Resting == [stage |-> "idle", of |-> "none", id |-> 0, recent |-> << >>, fresh |-> FALSE]
PostId == 1..MaxPosts

PublishingTypeOK ==
    /\ public \in [Prediction -> {"none", "draft", "published"}]
    /\ external \in [Prediction -> PostId \cup {0}]
    /\ timeline \in Seq(Prediction) /\ Len(timeline) <= MaxPosts
    /\ told \subseteq PostId /\ forgotten \subseteq PostId /\ jostled \subseteq PostId
    /\ persona = NoPersona \/ (persona \in Seq(PostId) /\ Len(persona) <= Keep)
    /\ posting \in [Poster -> [stage : {"idle", "checked", "sent", "stored", "listed"},
                                of : Prediction \cup {"none"}, id : PostId \cup {0},
                                recent : Seq(PostId), fresh : BOOLEAN]]
    /\ contested \subseteq Prediction

PublishingInit ==
    /\ public = [d \in Prediction |-> "none"]
    /\ external = [d \in Prediction |-> 0]
    /\ timeline = << >>
    /\ told = {} /\ forgotten = {} /\ contested = {} /\ jostled = {}
    /\ persona = NoPersona
    /\ posting = [w \in Poster |-> Resting]

\* create_prediction_draft: the prediction and the post that goes with it.
CreateDraft(d) ==
    /\ public[d] = "none"
    /\ public' = [public EXCEPT ![d] = "draft"]
    /\ UNCHANGED <<external, timeline, told, persona, posting, forgotten, contested, jostled>>

\* A published prediction is published again (faulty variant of CheckDraft).
CheckDraftNever(w, d) ==
    /\ posting[w].stage = "idle"
    /\ public[d] # "none"
    /\ posting' = [posting EXCEPT ![w] = [Resting EXCEPT !.stage = "checked", !.of = d]]
    /\ contested' = contested \cup {e \in {d} : \E v \in Poster : posting[v].of = e}
    /\ UNCHANGED <<public, external, timeline, told, persona, forgotten, jostled>>

\* The prediction and the post are drafts as the session reads them.
CheckDraft(w, d) ==
    /\ posting[w].stage = "idle"
    /\ public[d] = "draft"
    /\ posting' = [posting EXCEPT ![w] = [Resting EXCEPT !.stage = "checked", !.of = d]]
    /\ contested' = contested \cup {e \in {d} : \E v \in Poster : posting[v].of = e}
    /\ UNCHANGED <<public, external, timeline, told, persona, forgotten, jostled>>

\* XPostingClient.post: from here on the post is public.
Send(w) ==
    /\ posting[w].stage = "checked"
    /\ Len(timeline) < MaxPosts
    /\ timeline' = Append(timeline, posting[w].of)
    /\ posting' = [posting EXCEPT ![w].stage = "sent", ![w].id = Len(timeline) + 1]
    /\ LET others == {v \in Poster \ {w} : posting[v].id # 0}
       IN  jostled' = jostled \cup (IF others = {} THEN {}
                                    ELSE {Len(timeline) + 1} \cup {posting[v].id : v \in others})
    /\ UNCHANGED <<public, external, told, persona, forgotten, contested>>

\* insert_content_event flushes the rows of prediction and post with the event:
\* another session that wrote the rows is waited for.
StoreRows(w) ==
    /\ posting[w].stage = "sent"
    /\ \A v \in Poster \ {w} : posting[v].stage \in {"stored", "listed"} => posting[v].of # posting[w].of
    /\ posting' = [posting EXCEPT ![w].stage = "stored"]
    /\ UNCHANGED <<public, external, timeline, told, persona, forgotten, contested, jostled>>

\* The last Keep - 1 posts are all that is kept (faulty variant of ListPost).
ListPostShort(w) ==
    /\ posting[w].stage = "stored"
    /\ LET listed == Append(IF persona = NoPersona THEN << >> ELSE persona, posting[w].id)
           from   == IF Len(listed) < Keep THEN 1 ELSE Len(listed) - Keep + 2
       IN  posting' = [posting EXCEPT
              ![w].stage = "listed", ![w].fresh = (persona = NoPersona),
              ![w].recent = SubSeq(listed, from, Len(listed))]
    /\ UNCHANGED <<public, external, timeline, told, persona, forgotten, contested, jostled>>

\* The persona's recent posts are read, the oldest is dropped, this one added.
ListPost(w) ==
    /\ posting[w].stage = "stored"
    /\ LET known == IF persona = NoPersona THEN << >> ELSE persona
           from  == IF Len(known) < Keep THEN 1 ELSE Len(known) - Keep + 2
       IN  posting' = [posting EXCEPT
              ![w].stage = "listed", ![w].fresh = (persona = NoPersona),
              ![w].recent = Append(SubSeq(known, from, Len(known)), posting[w].id)]
    /\ UNCHANGED <<public, external, timeline, told, persona, forgotten, contested, jostled>>

\* All rows become visible; the list is written as it was computed. Of two
\* sessions that insert the persona's row only one can commit.
CommitPost(w) ==
    /\ posting[w].stage = "listed"
    /\ posting[w].fresh => persona = NoPersona
    /\ public' = [public EXCEPT ![posting[w].of] = "published"]
    /\ external' = [external EXCEPT ![posting[w].of] = posting[w].id]
    /\ told' = told \cup {posting[w].id}
    /\ persona' = posting[w].recent
    /\ posting' = [posting EXCEPT ![w] = Resting]
    /\ UNCHANGED <<timeline, forgotten, contested, jostled>>

\* X refuses the post or answers without an id, the session fails, or the
\* process is lost; what was sent stays on X.
AbandonPost(w) ==
    /\ posting[w].stage # "idle"
    /\ forgotten' = forgotten \cup ({posting[w].id} \ {0})
    /\ posting' = [posting EXCEPT ![w] = Resting]
    /\ UNCHANGED <<public, external, timeline, told, persona, contested, jostled>>

PublishingNext ==
    \/ \E d \in Prediction : CreateDraft(d) \/ \E w \in Poster : CheckDraft(w, d)
    \/ \E w \in Poster : Send(w) \/ StoreRows(w) \/ ListPost(w) \/ CommitPost(w) \/ AbandonPost(w)

PublishingSpec == PublishingInit /\ [][PublishingNext]_publishingVars

-----------------------------------------------------------------------------
\* Every post on X is the recorded one of its prediction with its event, unless
\* its session is under way or ended without a commit, or two publications of
\* the prediction overlapped: nothing else puts a prediction on X twice.
PostsAccounted ==
    \A i \in DOMAIN timeline :
        \/ external[timeline[i]] = i /\ public[timeline[i]] = "published" /\ i \in told
        \/ i \in forgotten
        \/ \E w \in Poster : posting[w].id = i
        \/ timeline[i] \in contested

\* The persona remembers its latest publications, except those that overlapped
\* with another, whose list may lack them.
PersonaRemembers ==
    \A i \in told \ jostled :
        Cardinality({k \in told : k > i}) < Keep => \E n \in DOMAIN persona : persona[n] = i

=============================================================================
