--------------------------- MODULE PublishProofs ---------------------------
(***************************************************************************)
(* What Publish guarantees for every set of releases and versions, every   *)
(* number of request threads and of requests.                              *)
(***************************************************************************)
EXTENDS Publish, FiniteSetTheorems, TLAPS

AtComponent == {"prepare", "publishing", "upstream", "posted", "settle"}

\* A session that works on a component has one, and a version.
Working ==
  \A s \in Session :
    /\ sess[s].at \in AtComponent => sess[s].todo # <<>> /\ sess[s].version \in Version
    /\ sess[s].at = "aggregate" => sess[s].version \in Version

TypeInv == TypeOK /\ Working

LEMMA SessionFacts == Worker \in Session /\ Request \subseteq Session
BY DEF Session

LEMMA StepIsDep ==
  ASSUME NEW b \in Bundle PROVE Steps[b] \in Seq(Dep) /\ DepsOf(b) \subseteq Dep
BY StepsAssumption DEF DepsOf

LEMMA BlankType == Blank \in Row
BY DEF Blank, Row, PublishStatus

LEMMA NoCopyType == NoCopy \in Copy
BY BlankType DEF NoCopy, Copy, RecordStatus

LEMMA IdleType == Idle \in SessionState /\ Idle.at = "idle"
BY NoCopyType DEF Idle, SessionState

LEMMA MergedType ==
  ASSUME NEW db \in Row, NEW seen \in Row, NEW mine \in Row
  PROVE  Merged(db, seen, mine) \in Row
BY DEF Merged, Row

LEMMA StartedType ==
  ASSUME NEW r \in Row, NEW v \in Version PROVE Started(r, v) \in Row
BY DEF Started, Row, PublishStatus

LEMMA JudgedType == ASSUME NEW p, NEW e PROVE Judged(p, e) \in PublishStatus
BY DEF Judged, PublishStatus

LEMMA KeyType ==
  ASSUME NEW d \in Dep, NEW v \in Version
  PROVE  <<d, v>> \in Key /\ TagOf(<<d, v>>) \in Tag /\ CommitOf[d] \in Sha /\ CommitOf[d] # None
BY ConstantsAssumption DEF Key, Tag, TagOf, Sha

LEMMA CopiedType ==
  ASSUME TypeOK, NEW row \in Row, NEW S, NEW v \in Version
  PROVE  Copied(row, S, v) \in Copy
<1>1. \A d \in Dep : (IF d \in S THEN deployment[d] ELSE Blank) \in Row
  BY BlankType DEF TypeOK
<1>2. \A d \in Dep : (IF d \in S THEN record[<<d, v>>] ELSE "ABSENT") \in RecordStatus
  BY KeyType DEF TypeOK, RecordStatus
<1>3. QED
  BY <1>1, <1>2 DEF Copied, Copy

LEMMA OpenedType ==
  ASSUME NEW at \in {"prepare", "verdict"}, NEW b \in Bundle \cup {None},
         NEW v \in Version \cup {None}, NEW todo \in Seq(Dep), NEW p \in SUBSET Dep, NEW copy \in Copy
  PROVE  /\ Opened(at, b, v, todo, p, copy) \in SessionState
         /\ Opened(at, b, v, todo, p, copy).at = at
         /\ Opened(at, b, v, todo, p, copy).todo = todo
         /\ Opened(at, b, v, todo, p, copy).bundle = b
         /\ Opened(at, b, v, todo, p, copy).version = v
         /\ Opened(at, b, v, todo, p, copy).seen = copy
         /\ Opened(at, b, v, todo, p, copy).mine = copy
BY IdleType, ZenonT(60) DEF Opened, Idle, SessionState

\* OpenedType, for the session of a request.
LEMMA PrepareOpenedType ==
  ASSUME NEW b \in Bundle \cup {None}, NEW v \in Version \cup {None},
         NEW todo \in Seq(Dep), NEW p \in SUBSET Dep, NEW copy \in Copy
  PROVE  /\ Opened("prepare", b, v, todo, p, copy) \in SessionState
         /\ Opened("prepare", b, v, todo, p, copy).at = "prepare"
         /\ Opened("prepare", b, v, todo, p, copy).todo = todo
         /\ Opened("prepare", b, v, todo, p, copy).version = v
         /\ Opened("prepare", b, v, todo, p, copy).mine = copy
<1>1. "prepare" \in {"prepare", "verdict"}
  OBVIOUS
<1>2. QED
  BY <1>1, OpenedType

LEMMA CopyBundle ==
  ASSUME NEW c \in Copy, NEW r \in Row PROVE [c EXCEPT !.bundle = r] \in Copy
BY DEF Copy

LEMMA CopyBundleVerdict ==
  ASSUME NEW c \in Copy, NEW p \in PublishStatus PROVE [c EXCEPT !.bundle.publish = p] \in Copy
BY DEF Copy, Row

LEMMA CopyDeployment ==
  ASSUME NEW c \in Copy, NEW d \in Dep, NEW r \in Row
  PROVE  [c EXCEPT !.deployment[d] = r] \in Copy
BY DEF Copy

LEMMA CopyDeploymentVerdict ==
  ASSUME NEW c \in Copy, NEW d \in Dep, NEW p \in PublishStatus
  PROVE  [c EXCEPT !.deployment[d].publish = p] \in Copy
BY DEF Copy, Row

LEMMA CopyRecord ==
  ASSUME NEW c \in Copy, NEW d \in Dep, NEW q \in RecordStatus
  PROVE  [c EXCEPT !.record[d] = q] \in Copy
BY DEF Copy

LEMMA CurrentType ==
  ASSUME TypeInv, NEW s \in Session, sess[s].at \in AtComponent
  PROVE  /\ Current(s) \in Dep /\ Tail(sess[s].todo) \in Seq(Dep)
         /\ sess[s].version \in Version /\ CurrentKey(s) \in Key
BY DEF TypeInv, TypeOK, Working, SessionState, Current, CurrentKey, Key

LEMMA WithType ==
  ASSUME TypeInv, NEW s \in Session, sess[s].at \in AtComponent,
         NEW p \in PublishStatus, NEW r \in RecordStatus
  PROVE  With(s, p, r) \in Copy
<1>1. Current(s) \in Dep /\ sess[s].version \in Version
  BY CurrentType
<1>2. sess[s].mine \in Copy /\ sess[s].mine.deployment[Current(s)] \in Row
  BY <1>1 DEF TypeInv, TypeOK, SessionState, Copy
<1>3. [Started(sess[s].mine.deployment[Current(s)], sess[s].version) EXCEPT !.publish = p] \in Row
  BY <1>1, <1>2, StartedType DEF Row
<1>4. QED
  BY <1>1, <1>2, <1>3 DEF With, Copy

\* The state of one session changes, that of the others does not.
LEMMA SessionStep ==
  ASSUME TypeInv, NEW s \in Session, NEW next \in SessionState,
         sess' = [sess EXCEPT ![s] = next],
         next.at \in AtComponent => next.todo # <<>> /\ next.version \in Version,
         next.at = "aggregate" => next.version \in Version
  PROVE  sess' \in [Session -> SessionState] /\ Working'
BY DEF TypeInv, TypeOK, Working

LEMMA FlushType ==
  ASSUME TypeInv, NEW s \in Session, NEW mine \in Copy, NEW next \in SessionState,
         Flush(s, mine, next),
         next.at \in AtComponent => next.todo # <<>> /\ next.version \in Version,
         next.at = "aggregate" => next.version \in Version,
         UNCHANGED <<gitea, bounds>>
  PROVE  TypeInv'
<1>1. sess[s].seen \in Copy
  BY DEF TypeInv, TypeOK, SessionState
<1>2. bundle' \in [Bundle -> Row]
  BY <1>1, MergedType DEF Flush, Copy, TypeInv, TypeOK
<1>3. deployment' \in [Dep -> Row]
  BY <1>1, MergedType DEF Flush, Copy, TypeInv, TypeOK
<1>4. record' \in [Key -> RecordStatus]
  BY DEF Flush, Copy, TypeInv, TypeOK, Key
<1>5. sess' \in [Session -> SessionState] /\ Working'
  BY SessionStep DEF Flush
<1>6. QED
  BY <1>2, <1>3, <1>4, <1>5 DEF TypeInv, TypeOK, gitea, bounds

LEMMA SettleType ==
  ASSUME TypeInv, NEW s \in Session, sess[s].at \in AtComponent,
         NEW p \in PublishStatus, NEW r \in RecordStatus, Settle(s, p, r)
  PROVE  TypeInv'
<1> DEFINE next == [sess[s] EXCEPT !.at = "settle", !.mine = With(s, p, r)]
<1>1. next \in SessionState
  BY ZenonT(60), WithType DEF TypeInv, TypeOK, SessionState
<1>2. next.at = "settle" /\ next.todo = sess[s].todo /\ next.version = sess[s].version
  BY DEF TypeInv, TypeOK, SessionState
<1>3. sess' = [sess EXCEPT ![s] = next]
  BY DEF Settle
<1>4. sess[s].todo # <<>> /\ sess[s].version \in Version
  BY DEF TypeInv, Working
<1>5. sess' \in [Session -> SessionState] /\ Working'
  BY <1>1, <1>2, <1>3, <1>4, SessionStep
<1>6. QED
  BY <1>5 DEF Settle, TypeInv, TypeOK, gitea, bounds

\* A step of one session that leaves the tables alone.
LEMMA LocalType ==
  ASSUME TypeInv, NEW s \in Session, NEW next \in SessionState,
         sess' = [sess EXCEPT ![s] = next],
         next.at \in AtComponent => next.todo # <<>> /\ next.version \in Version,
         next.at = "aggregate" => next.version \in Version,
         UNCHANGED <<bundle, deployment, record, enabled, tag, released, edits>>,
         posts' \subseteq Key, requests' \in Nat
  PROVE  TypeInv'
<1>1. sess' \in [Session -> SessionState] /\ Working'
  BY SessionStep
<1>2. QED
  BY <1>1 DEF TypeInv, TypeOK

LEMMA PublishBundleType ==
  ASSUME TypeInv, NEW s \in Session, NEW b \in Bundle, NEW v \in Version,
         PublishBundle(s, b, v)
  PROVE  TypeInv'
<1> DEFINE copy == Copied(bundle[b], DepsOf(b), v)
           publishing == DepsOf(b) \cap enabled
           open == Opened("prepare", b, v, Steps[b], publishing, copy)
           row == Started(bundle[b], v)
           next == [open EXCEPT !.mine.bundle = row]
<1>1. Steps[b] \in Seq(Dep) /\ Steps[b] # <<>> /\ publishing \in SUBSET Dep
  BY StepIsDep DEF PublishBundle, DepsOf
<1>2. copy \in Copy /\ row \in Row
  BY CopiedType, StartedType DEF TypeInv, TypeOK
<1>20. b \in Bundle \cup {None} /\ v \in Version \cup {None}
  OBVIOUS
<1>3. /\ open \in SessionState /\ open.at = "prepare" /\ open.todo = Steps[b]
      /\ open.version = v /\ open.mine = copy
  <2> HIDE DEF copy, publishing
  <2>1. QED
    BY <1>1, <1>2, <1>20, PrepareOpenedType
<1>4. sess' = [sess EXCEPT ![s] = next]
  BY DEF PublishBundle
<1>5. /\ UNCHANGED <<bundle, deployment, record, enabled, tag, released, posts, edits>>
      /\ requests' \in Nat /\ posts' \subseteq Key
  BY DEF PublishBundle, Accept, gitea, TypeInv, TypeOK
<1> HIDE DEF open, copy, row
<1>6. [open.mine EXCEPT !.bundle = row] \in Copy
  BY <1>2, <1>3, CopyBundle
<1>7. next = [open EXCEPT !.mine = [open.mine EXCEPT !.bundle = row]]
  BY <1>3 DEF SessionState
<1>8. /\ next \in SessionState
      /\ next.at = "prepare" /\ next.todo = Steps[b] /\ next.version = v
  BY <1>3, <1>6, <1>7 DEF SessionState
<1> HIDE DEF next
<1>9. QED
  BY <1>1, <1>4, <1>5, <1>8, LocalType

LEMMA PublishStandaloneType ==
  ASSUME TypeInv, NEW s \in Session, NEW d \in Dep, NEW v \in Version,
         PublishStandalone(s, d, v)
  PROVE  TypeInv'
<1> DEFINE todo == <<d>>
           next == Opened("prepare", None, v, todo, {d}, Copied(Blank, {d}, v))
<1>1. Copied(Blank, {d}, v) \in Copy
  BY CopiedType, BlankType DEF TypeInv
<1>2. todo \in Seq(Dep) /\ todo # <<>> /\ {d} \in SUBSET Dep
  OBVIOUS
<1> DEFINE copy == Copied(Blank, {d}, v)
<1> HIDE DEF todo, copy
<1>20. None \in Bundle \cup {None} /\ v \in Version \cup {None}
  OBVIOUS
<1>21. copy \in Copy
  BY <1>1 DEF copy
<1>3. next \in SessionState /\ next.at = "prepare" /\ next.todo # <<>> /\ next.version = v
  <2> DEFINE open == Opened("prepare", None, v, todo, {d}, copy)
  <2>1. open \in SessionState /\ open.at = "prepare" /\ open.todo = todo /\ open.version = v
    BY <1>2, <1>20, <1>21, PrepareOpenedType, SMTT(60)
  <2>2. next = open
    BY DEF copy
  <2> HIDE DEF open, next
  <2>3. QED
    BY <2>1, <2>2, <1>2
<1>4. /\ UNCHANGED <<bundle, deployment, record, enabled, tag, released, posts, edits>>
      /\ requests' \in Nat /\ posts' \subseteq Key
      /\ sess' = [sess EXCEPT ![s] = next]
  BY DEF PublishStandalone, Accept, gitea, TypeInv, TypeOK, todo
<1> HIDE DEF next
<1>5. QED
  BY <1>3, <1>4, LocalType

LEMMA FollowingType ==
  ASSUME TypeInv, NEW s \in Session, sess[s].at \in AtComponent, NEW c \in Copy
  PROVE  /\ Following(s, c) \in SessionState
         /\ Following(s, c).at \in {"aggregate", "prepare"}
         /\ Following(s, c).version = sess[s].version
         /\ Following(s, c).at = "prepare" => Following(s, c).todo # <<>>
BY ZenonT(60), CurrentType DEF Following, TypeInv, TypeOK, SessionState

LEMMA SkipComponentType ==
  ASSUME TypeInv, NEW s \in Session, SkipComponent(s)
  PROVE  TypeInv'
<1> DEFINE next == Following(s, sess[s].seen)
<1>1. sess[s].at \in AtComponent /\ sess[s].seen \in Copy /\ sess[s].version \in Version
  BY DEF SkipComponent, AtComponent, TypeInv, TypeOK, SessionState, Working
<1>2. /\ next \in SessionState /\ next.at \in {"aggregate", "prepare"}
      /\ next.version = sess[s].version
      /\ next.at = "prepare" => next.todo # <<>>
  BY <1>1, FollowingType
<1>3. /\ UNCHANGED <<bundle, deployment, record, enabled, tag, released, posts, edits>>
      /\ requests' \in Nat /\ posts' \subseteq Key
      /\ sess' = [sess EXCEPT ![s] = next]
  BY DEF SkipComponent, bounds, gitea, TypeInv, TypeOK
<1> HIDE DEF next
<1>4. QED
  BY <1>1, <1>2, <1>3, LocalType DEF AtComponent

\* Where LookUpRecord leaves its session.
LookedUp(s, status, at, listed) ==
  [sess[s] EXCEPT !.at = at, !.listed = listed,
     !.seen = [sess[s].seen EXCEPT !.record[Current(s)] = Found(s)],
     !.mine = With(s, status, status)]

LEMMA LookUpRecordStep ==
  ASSUME TypeInv, NEW s \in Session, LookUpRecord(s)
  PROVE  /\ sess[s].at \in AtComponent /\ Found(s) \in RecordStatus
         /\ Current(s) \in sess[s].publishing
         /\ \E status \in {"PUBLISHED", "PUBLISHING"}, at \in {"settle", "publishing"},
               listed \in SUBSET Dep :
              /\ sess' = [sess EXCEPT ![s] = LookedUp(s, status, at, listed)]
              /\ (Found(s) = "PUBLISHED") = (status = "PUBLISHED")
              /\ (status = "PUBLISHED") = (at = "settle")
              /\ listed = sess[s].listed \cup (IF Found(s) = "ABSENT" THEN {Current(s)} ELSE {})
         /\ UNCHANGED <<bundle, deployment, record, gitea, bounds>>
<1> DEFINE status == IF Found(s) = "PUBLISHED" THEN "PUBLISHED" ELSE "PUBLISHING"
           at == IF Found(s) = "PUBLISHED" THEN "settle" ELSE "publishing"
           listed == sess[s].listed \cup (IF Found(s) = "ABSENT" THEN {Current(s)} ELSE {})
<1>1. sess[s].at \in AtComponent
  BY DEF LookUpRecord, AtComponent
<1>2. Current(s) \in Dep /\ CurrentKey(s) \in Key
  BY <1>1, CurrentType
<1>3. Found(s) \in RecordStatus
  BY <1>2 DEF Found, TypeInv, TypeOK, SessionState, Copy
<1>4. sess' = [sess EXCEPT ![s] = LookedUp(s, status, at, listed)]
  <2> DEFINE next == [sess[s] EXCEPT !.at = at, !.listed = listed,
                        !.seen.record[Current(s)] = Found(s), !.mine = With(s, status, status)]
  <2>1. sess' = [sess EXCEPT ![s] = next]
    BY DEF LookUpRecord
  <2>2. next = LookedUp(s, status, at, listed)
    BY DEF LookedUp, TypeInv, TypeOK, SessionState
  <2>3. QED
    BY <2>1, <2>2
<1>5. listed \in SUBSET Dep
  BY <1>2 DEF TypeInv, TypeOK, SessionState
<1>6. UNCHANGED <<bundle, deployment, record, gitea, bounds>> /\ Current(s) \in sess[s].publishing
  BY DEF LookUpRecord
<1>7. QED
  BY <1>1, <1>3, <1>4, <1>5, <1>6

LEMMA LookUpRecordType ==
  ASSUME TypeInv, NEW s \in Session, LookUpRecord(s)
  PROVE  TypeInv'
<1>1. PICK status \in {"PUBLISHED", "PUBLISHING"}, at \in {"settle", "publishing"},
            listed \in SUBSET Dep :
        sess' = [sess EXCEPT ![s] = LookedUp(s, status, at, listed)]
  BY LookUpRecordStep
<1> DEFINE seen == [sess[s].seen EXCEPT !.record[Current(s)] = Found(s)]
           next == LookedUp(s, status, at, listed)
<1>2. /\ Current(s) \in Dep /\ sess[s].version \in Version /\ sess[s].todo # <<>>
      /\ Found(s) \in RecordStatus /\ sess[s].at \in AtComponent
  BY LookUpRecordStep, CurrentType DEF TypeInv, Working
<1>3. seen \in Copy
  BY <1>2, CopyRecord DEF TypeInv, TypeOK, SessionState
<1>4. With(s, status, status) \in Copy
  BY <1>2, WithType DEF PublishStatus, RecordStatus
<1> HIDE DEF seen
<1>5. /\ next \in SessionState /\ next.at = at
      /\ next.todo = sess[s].todo /\ next.version = sess[s].version
  BY ZenonT(60), <1>3, <1>4 DEF LookedUp, seen, TypeInv, TypeOK, SessionState
<1>6. /\ UNCHANGED <<bundle, deployment, record, enabled, tag, released, edits>>
      /\ requests' \in Nat /\ posts' \subseteq Key
  BY LookUpRecordStep DEF gitea, bounds, TypeInv, TypeOK
<1> HIDE DEF next
<1>7. QED
  BY <1>1, <1>2, <1>5, <1>6, LocalType DEF next

LEMMA CommitPublishingType ==
  ASSUME TypeInv, NEW s \in Session, CommitPublishing(s)
  PROVE  TypeInv'
<1> DEFINE next == [sess[s] EXCEPT !.at = "upstream", !.seen = sess[s].mine]
<1>1. sess[s].todo # <<>> /\ sess[s].version \in Version /\ sess[s].mine \in Copy
  BY DEF CommitPublishing, AtComponent, TypeInv, TypeOK, Working, SessionState
<1>2. /\ next \in SessionState
      /\ next.todo = sess[s].todo /\ next.version = sess[s].version
  BY ZenonT(60), <1>1 DEF TypeInv, TypeOK, SessionState
<1>3. Flush(s, sess[s].mine, next) /\ UNCHANGED <<gitea, bounds>>
  BY DEF CommitPublishing
<1> HIDE DEF next
<1>4. QED
  BY <1>1, <1>2, <1>3, FlushType

LEMMA CreateReleaseType ==
  ASSUME TypeInv, NEW s \in Session, CreateRelease(s)
  PROVE  TypeInv'
<1> DEFINE next == [sess[s] EXCEPT !.at = "posted"]
<1>1. sess[s].todo # <<>> /\ sess[s].version \in Version /\ CurrentKey(s) \in Key
  BY CurrentType DEF CreateRelease, AtComponent, TypeInv, Working
<1>2. /\ next \in SessionState
      /\ next.todo = sess[s].todo /\ next.version = sess[s].version
  BY ZenonT(60) DEF TypeInv, TypeOK, SessionState
<1>3. sess' = [sess EXCEPT ![s] = next]
  BY DEF CreateRelease
<1>4. /\ UNCHANGED <<bundle, deployment, record, enabled, tag, released, edits>>
      /\ requests' \in Nat /\ posts' \subseteq Key
  BY <1>1 DEF CreateRelease, bounds, TypeInv, TypeOK
<1> HIDE DEF next
<1>5. QED
  BY <1>1, <1>2, <1>3, <1>4, LocalType

LEMMA CommitComponentType ==
  ASSUME TypeInv, NEW s \in Session, CommitComponent(s)
  PROVE  TypeInv'
<1> DEFINE next == Following(s, sess[s].mine)
           after == IF sess[s].bundle = None THEN Idle ELSE next
<1>1. sess[s].at \in AtComponent /\ sess[s].mine \in Copy /\ sess[s].version \in Version
  BY DEF CommitComponent, AtComponent, TypeInv, TypeOK, SessionState, Working
<1>2. /\ next \in SessionState /\ next.at \in {"aggregate", "prepare"}
      /\ next.version = sess[s].version
      /\ next.at = "prepare" => next.todo # <<>>
  BY <1>1, FollowingType
<1>3. Flush(s, sess[s].mine, after) /\ UNCHANGED <<gitea, bounds>>
  BY DEF CommitComponent
<1> HIDE DEF next
<1>4. /\ after \in SessionState
      /\ after.at \in AtComponent => after.todo # <<>> /\ after.version \in Version
      /\ after.at = "aggregate" => after.version \in Version
  BY <1>1, <1>2, IdleType DEF AtComponent
<1> HIDE DEF after
<1>5. QED
  BY <1>1, <1>3, <1>4, FlushType

LEMMA AggregateType ==
  ASSUME TypeInv, NEW s \in Session, Aggregate(s)
  PROVE  TypeInv'
<1>1. PICK verdict \in PublishStatus :
        /\ Flush(s, [sess[s].mine EXCEPT !.bundle.publish = verdict], Idle)
        /\ UNCHANGED <<gitea, bounds>>
  BY JudgedType DEF Aggregate
<1> DEFINE mine == [sess[s].mine EXCEPT !.bundle.publish = verdict]
<1>2. sess[s].mine \in Copy
  BY DEF TypeInv, TypeOK, SessionState
<1>3. mine \in Copy
  BY <1>2, CopyBundleVerdict
<1> HIDE DEF mine
<1>4. Flush(s, mine, Idle)
  BY <1>1 DEF mine
<1>5. QED
  BY <1>1, <1>3, <1>4, IdleType, FlushType DEF AtComponent

LEMMA SweepOpenedType ==
  ASSUME NEW b \in Bundle \cup {None}, NEW v \in Version \cup {None}, NEW copy \in Copy
  PROVE  /\ Opened("verdict", b, v, <<>>, {}, copy) \in SessionState
         /\ Opened("verdict", b, v, <<>>, {}, copy).at = "verdict"
         /\ Opened("verdict", b, v, <<>>, {}, copy).bundle = b
         /\ Opened("verdict", b, v, <<>>, {}, copy).version = v
         /\ Opened("verdict", b, v, <<>>, {}, copy).seen = copy
         /\ Opened("verdict", b, v, <<>>, {}, copy).mine = copy
BY IdleType, ZenonT(60) DEF Opened, Idle, SessionState

\* The same, for a deployment without a bundle.
LEMMA SweepStandaloneType ==
  ASSUME NEW v \in Version \cup {None}, NEW copy \in Copy
  PROVE  /\ Opened("verdict", None, v, <<>>, {}, copy) \in SessionState
         /\ Opened("verdict", None, v, <<>>, {}, copy).at = "verdict"
         /\ Opened("verdict", None, v, <<>>, {}, copy).mine = copy
BY IdleType, ZenonT(60) DEF Opened, Idle, SessionState

LEMMA SweepBundleType ==
  ASSUME TypeInv, NEW b \in Bundle, SweepBundle(b)
  PROVE  TypeInv'
<1>1. PICK verdict \in PublishStatus :
        sess' = [sess EXCEPT ![Worker] =
          [Opened("verdict", b, bundle[b].version, <<>>, {},
                  [NoCopy EXCEPT !.bundle = bundle[b]])
             EXCEPT !.mine.bundle.publish = verdict]]
  BY JudgedType DEF SweepBundle
<1> DEFINE copy == [NoCopy EXCEPT !.bundle = bundle[b]]
           open == Opened("verdict", b, bundle[b].version, <<>>, {}, copy)
           mine == [copy EXCEPT !.bundle.publish = verdict]
           next == [open EXCEPT !.mine = mine]
<1>2. bundle[b] \in Row /\ bundle[b].version \in Version \cup {None}
  BY DEF TypeInv, TypeOK, Row
<1>3. copy \in Copy /\ mine \in Copy
  BY <1>2, NoCopyType, CopyBundle, CopyBundleVerdict
<1> HIDE DEF mine, copy
<1>4. b \in Bundle \cup {None}
  OBVIOUS
<1>5. open \in SessionState /\ open.at = "verdict" /\ open.mine = copy
  <2> DEFINE v == bundle[b].version
  <2>1. v \in Version \cup {None} /\ copy \in Copy
    BY <1>2, <1>3
  <2> HIDE DEF v
  <2>2. /\ Opened("verdict", b, v, <<>>, {}, copy) \in SessionState
        /\ Opened("verdict", b, v, <<>>, {}, copy).at = "verdict"
        /\ Opened("verdict", b, v, <<>>, {}, copy).mine = copy
    BY <1>4, <2>1, SweepOpenedType
  <2>3. QED
    BY <2>2 DEF v
<1> HIDE DEF open
<1>6. next \in SessionState /\ next.at = "verdict"
  BY <1>3, <1>5, SMTT(60) DEF SessionState
<1>7. next = [open EXCEPT !.mine.bundle.publish = verdict]
  BY <1>5 DEF SessionState, mine
<1>8. sess' = [sess EXCEPT ![Worker] = next]
  BY <1>1, <1>7 DEF open, copy
<1>9. /\ UNCHANGED <<bundle, deployment, record, enabled, tag, released, posts, edits>>
      /\ requests' \in Nat /\ posts' \subseteq Key
  BY SMTT(60) DEF SweepBundle, gitea, bounds, TypeInv, TypeOK
<1> HIDE DEF next
<1>10. QED
  BY <1>6, <1>8, <1>9, SessionFacts, LocalType DEF AtComponent

LEMMA SweepDeploymentType ==
  ASSUME TypeInv, NEW d \in Dep, SweepDeployment(d)
  PROVE  TypeInv'
<1> DEFINE row == deployment[d]
<1>1. PICK verdict \in PublishStatus :
        sess' = [sess EXCEPT ![Worker] =
          [Opened("verdict", None, row.version, <<>>, {},
                  [NoCopy EXCEPT !.deployment[d] = row])
             EXCEPT !.mine.deployment[d].publish = verdict]]
  BY JudgedType, ZenonT(60) DEF SweepDeployment
<1> DEFINE copy == [NoCopy EXCEPT !.deployment[d] = row]
           open == Opened("verdict", None, row.version, <<>>, {}, copy)
           mine == [copy EXCEPT !.deployment[d].publish = verdict]
           next == [open EXCEPT !.mine = mine]
<1>2. row \in Row /\ row.version \in Version \cup {None} /\ None \in Bundle \cup {None}
  BY DEF TypeInv, TypeOK, Row
<1>3. copy \in Copy
  BY <1>2, NoCopyType, CopyDeployment
<1>4. mine \in Copy
  BY <1>2, <1>3, CopyDeploymentVerdict
<1> HIDE DEF mine, copy, row, next
<1>6. open \in SessionState /\ open.at = "verdict" /\ open.mine = copy
  <2> DEFINE v == row.version
  <2>1. v \in Version \cup {None}
    BY <1>2
  <2> HIDE DEF v
  <2>2. /\ Opened("verdict", None, v, <<>>, {}, copy) \in SessionState
        /\ Opened("verdict", None, v, <<>>, {}, copy).at = "verdict"
        /\ Opened("verdict", None, v, <<>>, {}, copy).mine = copy
    BY <1>3, <2>1, SweepStandaloneType
  <2>3. QED
    BY <2>2 DEF v
<1> HIDE DEF open
<1>7. next \in SessionState /\ next.at = "verdict"
  BY <1>4, <1>6 DEF SessionState, next
<1>8. next = [open EXCEPT !.mine.deployment[d].publish = verdict]
  BY <1>6 DEF SessionState, mine, next
<1>9. sess' = [sess EXCEPT ![Worker] = next]
  BY <1>1, <1>8 DEF open, copy
<1>10. /\ UNCHANGED <<bundle, deployment, record, enabled, tag, released, posts, edits>>
       /\ requests' \in Nat /\ posts' \subseteq Key
  BY DEF SweepDeployment, gitea, bounds, TypeInv, TypeOK
<1>11. QED
  BY <1>7, <1>9, <1>10, SessionFacts, LocalType DEF AtComponent

LEMMA CommitVerdictType ==
  ASSUME TypeInv, CommitVerdict PROVE TypeInv'
BY SessionFacts, IdleType, FlushType
   DEF CommitVerdict, TypeInv, TypeOK, SessionState, AtComponent

LEMMA RaiseType ==
  ASSUME TypeInv, NEW s \in Session, Raise(s) PROVE TypeInv'
<1>1. /\ UNCHANGED <<bundle, deployment, record, enabled, tag, released, posts, edits>>
      /\ requests' \in Nat /\ posts' \subseteq Key
  BY DEF Raise, gitea, bounds, TypeInv, TypeOK
<1>2. QED
  BY <1>1, IdleType, LocalType DEF Raise, AtComponent

LEMMA EnvironmentType ==
  ASSUME TypeInv, Environment PROVE TypeInv'
<1>1. CASE \E b \in Bundle : BundleTimeout(b)
  BY <1>1 DEF BundleTimeout, TypeInv, TypeOK, Working, Row, gitea, bounds
<1>2. CASE \E d \in Standalone : DeploymentTimeout(d)
  BY <1>2 DEF DeploymentTimeout, Standalone, TypeInv, TypeOK, Working, Row, gitea, bounds
<1>3. CASE \E d \in Dep : EditComponent(d)
  BY <1>3 DEF EditComponent, TypeInv, TypeOK, Working, gitea
<1>4. CASE \E k \in Key : HandleCreate(k)
  <2>1. PICK k \in Key : HandleCreate(k)
    BY <1>4
  <2>2. TagOf(k) \in Tag /\ CommitOf[k[1]] \in Sha
    BY KeyType DEF Key
  <2>3. QED
    BY <2>1, <2>2 DEF HandleCreate, TypeInv, TypeOK, Working, bounds
<1>5. CASE \E t \in Tag, c \in Sha : PushTag(t, c)
  BY <1>5 DEF PushTag, TypeInv, TypeOK, Working, bounds
<1>6. QED
  BY <1>1, <1>2, <1>3, <1>4, <1>5 DEF Environment

LEMMA TypeInit == Init => TypeInv
<1> SUFFICES ASSUME Init PROVE TypeInv
  OBVIOUS
<1>1. TypeOK
  BY BlankType, IdleType DEF Init, TypeOK, RecordStatus
<1>2. \A s \in Session : sess[s].at = "idle"
  BY IdleType DEF Init
<1>3. QED
  BY <1>1, <1>2 DEF TypeInv, Working, AtComponent

LEMMA TypeStep == TypeInv /\ [Next]_vars => TypeInv'
<1> SUFFICES ASSUME TypeInv, [Next]_vars PROVE TypeInv'
  OBVIOUS
<1>1. ASSUME NEW s \in Request, RequestStep(s) PROVE TypeInv'
  <2> s \in Session
    BY SessionFacts
  <2>1. CASE \E b \in Bundle, v \in Version : PublishBundle(s, b, v)
    BY <2>1, PublishBundleType
  <2>2. CASE \E d \in Standalone, v \in Version : PublishStandalone(s, d, v)
    BY <2>2, PublishStandaloneType DEF Standalone
  <2>3. CASE Misconfigured(s)
    <3>1. sess[s].at \in AtComponent /\ sess[s].mine.record[Current(s)] \in RecordStatus
      BY <2>3, CurrentType DEF Misconfigured, AtComponent, TypeInv, TypeOK, SessionState, Copy
    <3>2. QED
      BY <2>3, <3>1, SettleType DEF Misconfigured, PublishStatus
  <2>4. CASE ReleaseReady(s) \/ TagTaken(s) \/ UpstreamFails(s)
    BY <2>4, SettleType
       DEF ReleaseReady, TagTaken, UpstreamFails, Published, Failed, AtComponent,
           PublishStatus, RecordStatus
  <2>5. QED
    BY <1>1, <2>1, <2>2, <2>3, <2>4, SkipComponentType, LookUpRecordType,
       CommitPublishingType, CreateReleaseType, CommitComponentType, AggregateType
       DEF RequestStep
<1>2. CASE WorkerStep
  BY <1>2, SweepBundleType, SweepDeploymentType, CommitVerdictType DEF WorkerStep, Standalone
<1>3. CASE \E s \in Session : Raise(s)
  BY <1>3, RaiseType
<1>4. CASE UNCHANGED vars
  BY <1>4 DEF vars, gitea, bounds, TypeInv, TypeOK, Working
<1>5. QED
  BY <1>1, <1>2, <1>3, <1>4, EnvironmentType DEF Next

LEMMA TypeInvariance == Spec => []TypeInv
BY TypeInit, TypeStep, PTL DEF Spec

\* Every variable has its type.
THEOREM TypeCorrect == Spec => []TypeOK
BY TypeInvariance, PTL DEF TypeInv

----------------------------------------------------------------------------
(* That what Publish writes down about Gitea is so: a PUBLISHED record has *)
(* its release, what was created has a record, a PUBLISHED bundle is out.  *)
(* Gitea takes no release back, so a copy that is stale stays true, and a  *)
(* write of it does no harm to these.                                      *)

----------------------------------------------------------------------------
(* What the actions do to the copy of their session.                       *)

LEMMA WithFields ==
  ASSUME TypeInv, NEW s \in Session, sess[s].at \in AtComponent, NEW p, NEW r
  PROVE  /\ With(s, p, r).bundle = sess[s].mine.bundle
         /\ With(s, p, r).deployment[Current(s)].publish = p
         /\ \A d \in Dep : d # Current(s) =>
              With(s, p, r).deployment[d] = sess[s].mine.deployment[d]
         /\ With(s, p, r).record[Current(s)] = r
         /\ \A d \in Dep : d # Current(s) =>
              With(s, p, r).record[d] = sess[s].mine.record[d]
<1>1. Current(s) \in Dep /\ sess[s].mine \in Copy
  BY CurrentType DEF TypeInv, TypeOK, SessionState
<1>2. QED
  BY <1>1 DEF With, Copy, Started

LEMMA IdleFields ==
  /\ Idle.at = "idle" /\ Idle.bundle = None /\ Idle.version = None
  /\ \A d \in Dep : /\ Idle.mine.record[d] = "ABSENT"
                    /\ Idle.seen.record[d] = "ABSENT"
                    /\ Idle.mine.deployment[d].publish = "NOT_PUBLISHED"
BY DEF Idle, NoCopy, Blank

\* The rows of a session that settles its component.
LEMMA SettleFields ==
  ASSUME TypeInv, NEW s \in Session, NEW p, NEW r, Settle(s, p, r)
  PROVE  sess' = [sess EXCEPT ![s] = [sess[s] EXCEPT !.at = "settle", !.mine = With(s, p, r)]]
BY DEF Settle

----------------------------------------------------------------------------
(* Gitea.                                                                  *)

\* A release stays where it is: its tag is not moved.
LEMMA ReadyStable ==
  ASSUME TypeInv, [Next]_vars, NEW k \in Key, Ready(k)
  PROVE  Ready(k)'
<1>1. TagOf(k) \in Tag /\ CommitOf[k[1]] # None
  BY KeyType DEF Key
<1>2. CASE UNCHANGED <<tag, released>>
  BY <1>2 DEF Ready
<1>3. ASSUME NEW j \in Key, HandleCreate(j) PROVE Ready(k)'
  BY <1>3 DEF HandleCreate, Ready, TypeInv, TypeOK
<1>4. ASSUME NEW t \in Tag, NEW c \in Sha, PushTag(t, c) PROVE Ready(k)'
  BY <1>1, <1>4 DEF PushTag, Ready, TypeInv, TypeOK
<1>5. ASSUME NEW s \in Request, RequestStep(s) PROVE UNCHANGED <<tag, released>>
  BY <1>5 DEF RequestStep, PublishBundle, PublishStandalone, Accept, SkipComponent,
     Misconfigured, LookUpRecord, CommitPublishing, CreateRelease, ReleaseReady, TagTaken,
     UpstreamFails, Published, Failed, Settle, CommitComponent, Aggregate, gitea
<1>6. ASSUME WorkerStep PROVE UNCHANGED <<tag, released>>
  BY <1>6, ZenonT(60) DEF WorkerStep, SweepBundle, SweepDeployment, CommitVerdict, gitea
<1>7. ASSUME NEW s \in Session, Raise(s) PROVE UNCHANGED <<tag, released>>
  BY <1>7 DEF Raise, gitea
<1>8. CASE Environment
  <2>1. CASE \E b \in Bundle : BundleTimeout(b)
    BY <1>2, <2>1 DEF BundleTimeout, gitea
  <2>2. CASE \E d \in Standalone : DeploymentTimeout(d)
    BY <1>2, <2>2 DEF DeploymentTimeout, gitea
  <2>3. CASE \E d \in Dep : EditComponent(d)
    BY <1>2, <2>3 DEF EditComponent, gitea
  <2>4. QED
    BY <1>3, <1>4, <1>8, <2>1, <2>2, <2>3 DEF Environment
<1>9. QED
  BY <1>2, <1>5, <1>6, <1>7, <1>8 DEF Next, vars

----------------------------------------------------------------------------
(* A record that says PUBLISHED, in the table or in a copy, is right.      *)

RecordInv ==
  /\ \A k \in Key : record[k] = "PUBLISHED" => Ready(k)
  /\ \A s \in Session, k \in Key :
       k[2] = sess[s].version /\ sess[s].mine.record[k[1]] = "PUBLISHED" => Ready(k)

LEMMA RecordLocal ==
  ASSUME TypeInv, RecordInv, [Next]_vars, NEW s \in Session, NEW next,
         sess' = [sess EXCEPT ![s] = next], UNCHANGED record,
         \A k \in Key : k[2] = next.version /\ next.mine.record[k[1]] = "PUBLISHED" => Ready(k)
  PROVE  RecordInv'
<1>1. \A k \in Key : Ready(k) => Ready(k)'
  BY ReadyStable
<1>2. sess'[s] = next /\ \A q \in Session : q # s => sess'[q] = sess[q]
  BY DEF TypeInv, TypeOK
<1>3. QED
  BY <1>1, <1>2 DEF RecordInv

LEMMA RecordFlush ==
  ASSUME TypeInv, RecordInv, [Next]_vars, NEW s \in Session, NEW mine, NEW next,
         Flush(s, mine, next),
         \A k \in Key : k[2] = sess[s].version /\ mine.record[k[1]] = "PUBLISHED" => Ready(k),
         \A k \in Key : k[2] = next.version /\ next.mine.record[k[1]] = "PUBLISHED" => Ready(k)
  PROVE  RecordInv'
<1>1. \A k \in Key : Ready(k) => Ready(k)'
  BY ReadyStable
<1>2. sess'[s] = next /\ \A q \in Session : q # s => sess'[q] = sess[q]
  BY DEF Flush, TypeInv, TypeOK
<1>3. \A k \in Key : record'[k] = record[k] \/
                     (k[2] = sess[s].version /\ record'[k] = mine.record[k[1]])
  BY DEF Flush
<1>4. QED
  BY <1>1, <1>2, <1>3 DEF RecordInv

LEMMA KeyOfCurrent ==
  ASSUME NEW s \in Session, NEW k \in Key, k[1] = Current(s), k[2] = sess[s].version
  PROVE  k = CurrentKey(s)
BY DEF Key, CurrentKey

\* The copies of a session that reads: RecordInv of what it reads is enough.
LEMMA RecordOpened ==
  ASSUME TypeInv, RecordInv, NEW at, NEW b, NEW v \in Version, NEW todo, NEW p, NEW row, NEW S
  PROVE  LET o == Opened(at, b, v, todo, p, Copied(row, S, v)) IN
         /\ o.version = v
         /\ \A k \in Key : k[2] = v /\ o.mine.record[k[1]] = "PUBLISHED" => Ready(k)
<1> DEFINE o == Opened(at, b, v, todo, p, Copied(row, S, v))
<1>1. o.version = v /\ o.mine = Copied(row, S, v)
  BY DEF Opened, Idle
<1>2. \A d \in Dep : Copied(row, S, v).record[d] = "PUBLISHED" => record[<<d, v>>] = "PUBLISHED"
  BY DEF Copied
<1>3. \A k \in Key : k[1] \in Dep /\ k = <<k[1], k[2]>>
  BY DEF Key
<1>4. QED
  BY <1>1, <1>2, <1>3 DEF RecordInv

LEMMA RecordSettle ==
  ASSUME TypeInv, RecordInv, [Next]_vars, NEW s \in Session, sess[s].at \in AtComponent,
         NEW p, NEW r, Settle(s, p, r), r = "PUBLISHED" => Ready(CurrentKey(s))
  PROVE  RecordInv'
<1> DEFINE next == [sess[s] EXCEPT !.at = "settle", !.mine = With(s, p, r)]
<1>1. sess' = [sess EXCEPT ![s] = next] /\ UNCHANGED record
  BY SettleFields, ZenonT(60) DEF Settle
<1>2. next.version = sess[s].version /\ next.mine = With(s, p, r)
  BY DEF TypeInv, TypeOK, SessionState
<1>3. ASSUME NEW k \in Key, k[2] = sess[s].version, With(s, p, r).record[k[1]] = "PUBLISHED"
      PROVE  Ready(k)
  <2>1. k[1] \in Dep
    BY DEF Key
  <2>2. CASE k[1] = Current(s)
    BY <1>3, <2>2, KeyOfCurrent, WithFields
  <2>3. CASE k[1] # Current(s)
    BY <1>3, <2>1, <2>3, WithFields DEF RecordInv
  <2>4. QED
    BY <2>2, <2>3
<1> HIDE DEF next
<1>4. QED
  BY <1>1, <1>2, <1>3, RecordLocal

LEMMA RecordLookUp ==
  ASSUME TypeInv, RecordInv, [Next]_vars, NEW s \in Session, LookUpRecord(s)
  PROVE  RecordInv'
<1>1. PICK status \in {"PUBLISHED", "PUBLISHING"}, at \in {"settle", "publishing"},
            listed \in SUBSET Dep :
        /\ sess' = [sess EXCEPT ![s] = LookedUp(s, status, at, listed)]
        /\ (Found(s) = "PUBLISHED") = (status = "PUBLISHED")
  BY LookUpRecordStep
<1>2. sess[s].at \in AtComponent /\ CurrentKey(s) \in Key /\ Current(s) \in Dep
  BY LookUpRecordStep, CurrentType
<1>3. CurrentKey(s)[1] = Current(s) /\ CurrentKey(s)[2] = sess[s].version
  BY DEF CurrentKey
<1>4. status = "PUBLISHED" => Ready(CurrentKey(s))
  BY <1>1, <1>2, <1>3 DEF Found, RecordInv
<1> DEFINE next == LookedUp(s, status, at, listed)
<1>5. next.version = sess[s].version /\ next.mine = With(s, status, status)
  BY DEF LookedUp, TypeInv, TypeOK, SessionState
<1>6. ASSUME NEW k \in Key, k[2] = sess[s].version,
             With(s, status, status).record[k[1]] = "PUBLISHED"
      PROVE  Ready(k)
  <2>1. k[1] \in Dep
    BY DEF Key
  <2>2. CASE k[1] = Current(s)
    BY <1>2, <1>4, <1>6, <2>2, KeyOfCurrent, WithFields
  <2>3. CASE k[1] # Current(s)
    BY <1>2, <1>6, <2>1, <2>3, WithFields DEF RecordInv
  <2>4. QED
    BY <2>2, <2>3
<1> HIDE DEF next
<1>7. UNCHANGED record
  BY DEF LookUpRecord
<1>8. sess' = [sess EXCEPT ![s] = next]
  BY <1>1 DEF next
<1>9. QED
  BY <1>5, <1>6, <1>7, <1>8, RecordLocal

LEMMA RecordStep == TypeInv /\ RecordInv /\ [Next]_vars => RecordInv'
<1> SUFFICES ASSUME TypeInv, RecordInv, [Next]_vars PROVE RecordInv'
  OBVIOUS
<1> USE SessionFacts
<1>1. \A k \in Key : k[2] \in Version /\ k[2] # None /\ k[1] \in Dep
  BY ConstantsAssumption DEF Key
<1>2. ASSUME NEW s \in Session, NEW b \in Bundle, NEW v \in Version, PublishBundle(s, b, v)
      PROVE  RecordInv'
  <2> DEFINE o == Opened("prepare", b, v, Steps[b], DepsOf(b) \cap enabled,
                         Copied(bundle[b], DepsOf(b), v))
             next == [o EXCEPT !.mine.bundle = Started(bundle[b], v)]
  <2>1. sess' = [sess EXCEPT ![s] = next] /\ UNCHANGED record
    BY <1>2 DEF PublishBundle, Accept
  <2>2. /\ o.version = v
        /\ \A k \in Key : k[2] = v /\ o.mine.record[k[1]] = "PUBLISHED" => Ready(k)
    BY RecordOpened
  <2>3. next.version = o.version /\ next.mine.record = o.mine.record
    BY DEF Opened, Idle, Copied
  <2> HIDE DEF o, next
  <2>4. QED
    BY <2>1, <2>2, <2>3, RecordLocal
<1>3. ASSUME NEW s \in Session, NEW d \in Dep, NEW v \in Version, PublishStandalone(s, d, v)
      PROVE  RecordInv'
  <2> DEFINE o == Opened("prepare", None, v, <<d>>, {d}, Copied(Blank, {d}, v))
  <2>1. sess' = [sess EXCEPT ![s] = o] /\ UNCHANGED record
    BY <1>3 DEF PublishStandalone, Accept
  <2>2. /\ o.version = v
        /\ \A k \in Key : k[2] = v /\ o.mine.record[k[1]] = "PUBLISHED" => Ready(k)
    BY RecordOpened
  <2> HIDE DEF o
  <2>3. QED
    BY <2>1, <2>2, RecordLocal
<1>4. ASSUME NEW s \in Session, SkipComponent(s) PROVE RecordInv'
  <2> DEFINE next == Following(s, sess[s].seen)
  <2>1. next.version = sess[s].version /\ next.mine = sess[s].mine
    BY DEF Following, TypeInv, TypeOK, SessionState
  <2>2. sess' = [sess EXCEPT ![s] = next] /\ UNCHANGED record
    BY <1>4 DEF SkipComponent
  <2> HIDE DEF next
  <2>3. \A k \in Key : k[2] = next.version /\ next.mine.record[k[1]] = "PUBLISHED" => Ready(k)
    BY <2>1 DEF RecordInv
  <2>4. QED
    BY <2>2, <2>3, RecordLocal
<1>5. ASSUME NEW s \in Session, Misconfigured(s) PROVE RecordInv'
  <2>1. sess[s].at \in AtComponent /\ CurrentKey(s) \in Key
    BY <1>5, CurrentType DEF Misconfigured, AtComponent
  <2>2. sess[s].mine.record[Current(s)] = "PUBLISHED" => Ready(CurrentKey(s))
    BY <2>1 DEF RecordInv, CurrentKey
  <2>3. QED
    BY <1>5, <2>1, <2>2, RecordSettle DEF Misconfigured
<1>6. ASSUME NEW s \in Session, ReleaseReady(s) \/ TagTaken(s) \/ UpstreamFails(s)
      PROVE  RecordInv'
  BY <1>6, RecordSettle
     DEF ReleaseReady, TagTaken, UpstreamFails, Published, Failed, AtComponent
<1>7. ASSUME NEW s \in Session, CommitPublishing(s) PROVE RecordInv'
  <2> DEFINE next == [sess[s] EXCEPT !.at = "upstream", !.seen = sess[s].mine]
  <2>1. Flush(s, sess[s].mine, next)
    BY <1>7 DEF CommitPublishing
  <2>2. next.version = sess[s].version /\ next.mine = sess[s].mine
    BY DEF TypeInv, TypeOK, SessionState
  <2> HIDE DEF next
  <2>3. QED
    BY <2>1, <2>2, RecordFlush DEF RecordInv
<1>8. ASSUME NEW s \in Session, CreateRelease(s) PROVE RecordInv'
  <2> DEFINE next == [sess[s] EXCEPT !.at = "posted"]
  <2>1. sess' = [sess EXCEPT ![s] = next] /\ UNCHANGED record
    BY <1>8 DEF CreateRelease
  <2>2. next.version = sess[s].version /\ next.mine = sess[s].mine
    BY DEF TypeInv, TypeOK, SessionState
  <2> HIDE DEF next
  <2>3. \A k \in Key : k[2] = next.version /\ next.mine.record[k[1]] = "PUBLISHED" => Ready(k)
    BY <2>2 DEF RecordInv
  <2>4. QED
    BY <2>1, <2>3, RecordLocal
<1>9. ASSUME NEW s \in Session, CommitComponent(s) PROVE RecordInv'
  <2> DEFINE next == IF sess[s].bundle = None THEN Idle ELSE Following(s, sess[s].mine)
  <2>1. Flush(s, sess[s].mine, next)
    BY <1>9 DEF CommitComponent
  <2>2. /\ Following(s, sess[s].mine).version = sess[s].version
        /\ Following(s, sess[s].mine).mine = sess[s].mine
    BY DEF Following, TypeInv, TypeOK, SessionState
  <2>3. \A k \in Key : k[2] = next.version /\ next.mine.record[k[1]] = "PUBLISHED" => Ready(k)
    BY <1>1, <2>2, IdleFields DEF RecordInv
  <2> HIDE DEF next
  <2>4. QED
    BY <2>1, <2>3, RecordFlush DEF RecordInv
<1>10. ASSUME NEW s \in Session, Aggregate(s) PROVE RecordInv'
  <2>1. PICK verdict : Flush(s, [sess[s].mine EXCEPT !.bundle.publish = verdict], Idle)
    BY <1>10 DEF Aggregate
  <2> DEFINE mine == [sess[s].mine EXCEPT !.bundle.publish = verdict]
  <2>2. mine.record = sess[s].mine.record
    BY DEF TypeInv, TypeOK, SessionState, Copy
  <2>3. Flush(s, mine, Idle)
    BY <2>1
  <2> HIDE DEF mine
  <2>4. \A k \in Key : k[2] = Idle.version /\ Idle.mine.record[k[1]] = "PUBLISHED" => Ready(k)
    BY <1>1, IdleFields
  <2>5. \A k \in Key : k[2] = sess[s].version /\ mine.record[k[1]] = "PUBLISHED" => Ready(k)
    BY <2>2 DEF RecordInv
  <2>6. QED
    BY <2>3, <2>4, <2>5, RecordFlush
<1>11. ASSUME NEW b \in Bundle, SweepBundle(b) PROVE RecordInv'
  <2>1. PICK verdict :
          sess' = [sess EXCEPT ![Worker] =
            [Opened("verdict", b, bundle[b].version, <<>>, {},
                    [NoCopy EXCEPT !.bundle = bundle[b]])
               EXCEPT !.mine.bundle.publish = verdict]]
    BY <1>11 DEF SweepBundle
  <2> DEFINE next == [Opened("verdict", b, bundle[b].version, <<>>, {},
                             [NoCopy EXCEPT !.bundle = bundle[b]])
                        EXCEPT !.mine.bundle.publish = verdict]
  <2>2. \A d \in Dep : next.mine.record[d] = "ABSENT"
    BY DEF Opened, Idle, NoCopy
  <2>3. sess' = [sess EXCEPT ![Worker] = next] /\ UNCHANGED record
    BY <1>11, <2>1 DEF SweepBundle
  <2> HIDE DEF next
  <2>4. QED
    BY <1>1, <2>2, <2>3, RecordLocal
<1>12. ASSUME NEW d \in Dep, SweepDeployment(d) PROVE RecordInv'
  <2>1. PICK verdict :
          sess' = [sess EXCEPT ![Worker] =
            [Opened("verdict", None, deployment[d].version, <<>>, {},
                    [NoCopy EXCEPT !.deployment[d] = deployment[d]])
               EXCEPT !.mine.deployment[d].publish = verdict]]
    BY <1>12, ZenonT(60) DEF SweepDeployment
  <2> DEFINE next == [Opened("verdict", None, deployment[d].version, <<>>, {},
                             [NoCopy EXCEPT !.deployment[d] = deployment[d]])
                        EXCEPT !.mine.deployment[d].publish = verdict]
  <2>2. \A e \in Dep : next.mine.record[e] = "ABSENT"
    BY DEF Opened, Idle, NoCopy
  <2>3. sess' = [sess EXCEPT ![Worker] = next] /\ UNCHANGED record
    BY <1>12, <2>1, ZenonT(60) DEF SweepDeployment
  <2> HIDE DEF next
  <2>4. QED
    BY <1>1, <2>2, <2>3, RecordLocal
<1>13. ASSUME CommitVerdict PROVE RecordInv'
  <2>1. \A k \in Key : k[2] = Idle.version /\ Idle.mine.record[k[1]] = "PUBLISHED" => Ready(k)
    BY <1>1, IdleFields
  <2>2. Flush(Worker, sess[Worker].mine, Idle)
    BY <1>13 DEF CommitVerdict
  <2>3. QED
    BY <2>1, <2>2, RecordFlush DEF RecordInv
<1>14. ASSUME NEW s \in Session, Raise(s) PROVE RecordInv'
  <2>1. \A k \in Key : k[2] = Idle.version /\ Idle.mine.record[k[1]] = "PUBLISHED" => Ready(k)
    BY <1>1, IdleFields
  <2>2. sess' = [sess EXCEPT ![s] = Idle] /\ UNCHANGED record
    BY <1>14 DEF Raise
  <2>3. QED
    BY <2>1, <2>2, RecordLocal
<1>15. ASSUME UNCHANGED <<record, sess>> PROVE RecordInv'
  <2>1. \A k \in Key : Ready(k) => Ready(k)'
    BY ReadyStable
  <2>2. QED
    BY <1>15, <2>1 DEF RecordInv
<1>16. ASSUME Environment PROVE UNCHANGED <<record, sess>>
  BY <1>16 DEF Environment, BundleTimeout, DeploymentTimeout, EditComponent, HandleCreate, PushTag
<1>17. ASSUME NEW s \in Request, RequestStep(s) PROVE RecordInv'
  BY <1>2, <1>3, <1>4, <1>5, <1>6, <1>7, <1>8, <1>9, <1>10, <1>17, RecordLookUp
     DEF RequestStep, Standalone
<1>18. CASE WorkerStep
  BY <1>11, <1>12, <1>13, <1>18 DEF WorkerStep, Standalone
<1>19. QED
  BY <1>14, <1>15, <1>16, <1>17, <1>18 DEF Next, vars

LEMMA RecordInit == Init => RecordInv
<1> SUFFICES ASSUME Init PROVE RecordInv
  OBVIOUS
<1>1. \A k \in Key : k[1] \in Dep
  BY DEF Key
<1>2. QED
  BY <1>1, IdleFields DEF Init, RecordInv

LEMMA RecordInvariance == Spec => []RecordInv
<1>1. TypeInv /\ RecordInv /\ [Next]_vars => RecordInv'
  BY RecordStep
<1>2. QED
  BY <1>1, RecordInit, TypeInvariance, PTL DEF Spec

\* A PUBLISHED record has its release in Gitea, on the commit that was
\* deployed, whatever the sessions overwrite of one another.
THEOREM RecordsTrue == Spec => []PublishedIsTagged
<1>1. RecordInv => PublishedIsTagged
  BY DEF RecordInv, PublishedIsTagged
<1>2. QED
  BY <1>1, RecordInvariance, PTL

----------------------------------------------------------------------------
(* What was sent to Gitea has a record.                                    *)

\* x is a session, rec the table of records.
CreateOK(x, rec) ==
  /\ \A k \in Key : k[2] = x.version /\ x.seen.record[k[1]] # "ABSENT" => rec[k] # "ABSENT"
  /\ \A d \in Dep : x.mine.record[d] = "ABSENT" => x.seen.record[d] = "ABSENT"
  /\ x.at = "prepare" => x.seen.record = x.mine.record
  /\ x.at = "publishing" => x.mine.record[Head(x.todo)] # "ABSENT"
  /\ x.at \in {"upstream", "posted"} => rec[<<Head(x.todo), x.version>>] # "ABSENT"

CreateInv ==
  /\ \A k \in posts : record[k] # "ABSENT"
  /\ \A s \in Session : CreateOK(sess[s], record)

LEMMA CreateGrows ==
  ASSUME NEW x \in SessionState, NEW rec, NEW later, CreateOK(x, rec),
         x.at \in AtComponent => x.todo # <<>> /\ x.version \in Version,
         \A k \in Key : rec[k] # "ABSENT" => later[k] # "ABSENT"
  PROVE  CreateOK(x, later)
<1>1. x.at \in {"upstream", "posted"} => <<Head(x.todo), x.version>> \in Key
  BY DEF AtComponent, SessionState, Key
<1>2. QED
  BY <1>1 DEF CreateOK

LEMMA KeyOfDep == \A k \in Key : k[1] \in Dep
BY DEF Key

LEMMA CreateIdle == ASSUME NEW rec PROVE CreateOK(Idle, rec)
BY IdleFields DEF CreateOK, Key

LEMMA CreateLocal ==
  ASSUME TypeInv, CreateInv, NEW s \in Session, NEW next,
         sess' = [sess EXCEPT ![s] = next], UNCHANGED record,
         CreateOK(next, record), \A k \in posts' : record[k] # "ABSENT"
  PROVE  CreateInv'
BY DEF CreateInv, TypeInv, TypeOK

LEMMA CreateFlush ==
  ASSUME TypeInv, CreateInv, NEW s \in Session, NEW mine, NEW next,
         Flush(s, mine, next), UNCHANGED posts,
         \A d \in Dep : mine.record[d] = sess[s].mine.record[d],
         (\A k \in Key : k[2] = sess[s].version /\ mine.record[k[1]] # "ABSENT"
                           => record'[k] # "ABSENT")
           => CreateOK(next, record')
  PROVE  CreateInv'
<1>1. \A k \in Key : k[1] \in Dep
  BY DEF Key
<1>2. CreateOK(sess[s], record)
  BY DEF CreateInv
<1>3. \A k \in Key : record'[k] =
        IF k[2] = sess[s].version /\ mine.record[k[1]] # sess[s].seen.record[k[1]]
        THEN mine.record[k[1]] ELSE record[k]
  BY DEF Flush
<1>4. \A k \in Key : record[k] # "ABSENT" => record'[k] # "ABSENT"
  BY <1>1, <1>2, <1>3 DEF CreateOK
<1>5. \A k \in Key : k[2] = sess[s].version /\ mine.record[k[1]] # "ABSENT"
        => record'[k] # "ABSENT"
  BY <1>1, <1>2, <1>3 DEF CreateOK
<1>6. sess'[s] = next /\ \A q \in Session : q # s => sess'[q] = sess[q]
  BY DEF Flush, TypeInv, TypeOK
<1>7. \A q \in Session : q # s => CreateOK(sess'[q], record')
  <2> SUFFICES ASSUME NEW q \in Session, q # s PROVE CreateOK(sess[q], record')
    BY <1>6
  <2>1. sess[q] \in SessionState /\ CreateOK(sess[q], record)
    BY DEF TypeInv, TypeOK, CreateInv
  <2>2. sess[q].at \in AtComponent => sess[q].todo # <<>> /\ sess[q].version \in Version
    BY DEF TypeInv, Working
  <2>3. QED
    BY <1>4, <2>1, <2>2, CreateGrows
<1>8. \A k \in posts : k \in Key
  BY DEF TypeInv, TypeOK
<1>9. QED
  BY <1>4, <1>5, <1>6, <1>7, <1>8 DEF CreateInv

LEMMA CreateOpened ==
  ASSUME NEW at \in {"prepare", "verdict"}, NEW b, NEW v \in Version, NEW todo, NEW p, NEW row,
         NEW S
  PROVE  CreateOK(Opened(at, b, v, todo, p, Copied(row, S, v)), record)
<1> DEFINE o == Opened(at, b, v, todo, p, Copied(row, S, v))
<1>1. /\ o.version = v /\ o.mine = Copied(row, S, v) /\ o.seen = Copied(row, S, v)
      /\ o.at = at
  BY DEF Opened, Idle
<1>2. \A d \in Dep : Copied(row, S, v).record[d] # "ABSENT" => record[<<d, v>>] # "ABSENT"
  BY DEF Copied
<1>3. \A k \in Key : k[1] \in Dep /\ k = <<k[1], k[2]>>
  BY DEF Key
<1> HIDE DEF o
<1>4. QED
  BY <1>1, <1>2, <1>3 DEF CreateOK, o

LEMMA CreateSettle ==
  ASSUME TypeInv, CreateInv, NEW s \in Session, sess[s].at \in AtComponent,
         NEW p, NEW r, Settle(s, p, r),
         r = "ABSENT" => sess[s].seen.record[Current(s)] = "ABSENT"
  PROVE  CreateInv'
<1> DEFINE next == [sess[s] EXCEPT !.at = "settle", !.mine = With(s, p, r)]
<1>1. sess' = [sess EXCEPT ![s] = next] /\ UNCHANGED <<record, posts>>
  BY SettleFields, ZenonT(60) DEF Settle, gitea
<1>2. /\ next.at = "settle" /\ next.version = sess[s].version
      /\ next.mine = With(s, p, r) /\ next.seen = sess[s].seen
  BY DEF TypeInv, TypeOK, SessionState
<1>3. CreateOK(sess[s], record) /\ \A k \in posts' : record[k] # "ABSENT"
  BY <1>1 DEF CreateInv
<1> HIDE DEF next
<1>4. \A d \in Dep : next.mine.record[d] = "ABSENT" => next.seen.record[d] = "ABSENT"
  BY <1>2, <1>3, WithFields DEF CreateOK
<1>5. CreateOK(next, record)
  BY <1>2, <1>3, <1>4 DEF CreateOK
<1>6. QED
  BY <1>1, <1>3, <1>5, CreateLocal

LEMMA CreateLookUp ==
  ASSUME TypeInv, CreateInv, NEW s \in Session, LookUpRecord(s)
  PROVE  CreateInv'
<1>1. PICK status \in {"PUBLISHED", "PUBLISHING"}, at \in {"settle", "publishing"},
            listed \in SUBSET Dep :
        sess' = [sess EXCEPT ![s] = LookedUp(s, status, at, listed)]
  BY LookUpRecordStep
<1>2. /\ sess[s].at = "prepare" /\ sess[s].at \in AtComponent
      /\ CurrentKey(s) \in Key /\ Current(s) \in Dep
  BY LookUpRecordStep, CurrentType, ZenonT(60) DEF LookUpRecord
<1> DEFINE next == LookedUp(s, status, at, listed)
<1>3. /\ next.at = at /\ next.version = sess[s].version /\ next.todo = sess[s].todo
      /\ next.mine = With(s, status, status)
      /\ next.seen.record = [sess[s].seen.record EXCEPT ![Current(s)] = Found(s)]
  BY DEF LookedUp, TypeInv, TypeOK, SessionState, Copy
<1>4. /\ CreateOK(sess[s], record) /\ sess[s].seen.record = sess[s].mine.record
      /\ UNCHANGED <<record, posts>> /\ \A k \in posts' : record[k] # "ABSENT"
  BY <1>2 DEF CreateInv, CreateOK, LookUpRecord, gitea
<1>5. sess[s].seen.record \in [Dep -> RecordStatus]
  BY DEF TypeInv, TypeOK, SessionState, Copy
<1> HIDE DEF next
<1>6. ASSUME NEW k \in Key, k[2] = sess[s].version, next.seen.record[k[1]] # "ABSENT"
      PROVE  record[k] # "ABSENT"
  <2>1. k[1] \in Dep
    BY DEF Key
  <2>2. CASE k[1] = Current(s)
    <3>1. k = CurrentKey(s)
      BY <1>6, <2>2, KeyOfCurrent
    <3>2. Found(s) # "ABSENT"
      BY <1>2, <1>3, <1>5, <1>6, <2>2
    <3>3. QED
      BY <1>4, <1>6, <2>2, <3>1, <3>2 DEF Found, CreateOK
  <2>3. CASE k[1] # Current(s)
    BY <1>3, <1>4, <1>5, <1>6, <2>1, <2>3 DEF CreateOK
  <2>4. QED
    BY <2>2, <2>3
<1>7. \A d \in Dep : next.mine.record[d] = "ABSENT" => next.seen.record[d] = "ABSENT"
  BY <1>2, <1>3, <1>4, <1>5, WithFields DEF CreateOK
<1>8. next.mine.record[Head(next.todo)] # "ABSENT"
  BY <1>2, <1>3, WithFields DEF Current
<1>9. CreateOK(next, record)
  BY <1>3, <1>6, <1>7, <1>8 DEF CreateOK
<1>10. sess' = [sess EXCEPT ![s] = next]
  BY <1>1 DEF next
<1>11. QED
  BY <1>4, <1>9, <1>10, CreateLocal

LEMMA CreateStep == TypeInv /\ CreateInv /\ [Next]_vars => CreateInv'
<1> SUFFICES ASSUME TypeInv, CreateInv, [Next]_vars PROVE CreateInv'
  OBVIOUS
<1> USE SessionFacts
<1>1. \A s \in Session : CreateOK(sess[s], record)
  BY DEF CreateInv
<1>2. ASSUME NEW s \in Session, NEW b \in Bundle, NEW v \in Version, PublishBundle(s, b, v)
      PROVE  CreateInv'
  <2> DEFINE o == Opened("prepare", b, v, Steps[b], DepsOf(b) \cap enabled,
                         Copied(bundle[b], DepsOf(b), v))
             next == [o EXCEPT !.mine.bundle = Started(bundle[b], v)]
  <2>1. sess' = [sess EXCEPT ![s] = next] /\ UNCHANGED <<record, posts>>
    BY <1>2 DEF PublishBundle, Accept, gitea
  <2>2. CreateOK(o, record)
    BY CreateOpened
  <2>3. /\ next.at = o.at /\ next.at = "prepare" /\ next.version = o.version
        /\ next.mine.record = o.mine.record /\ next.seen = o.seen
    BY DEF Opened, Idle, Copied
  <2> HIDE DEF o, next
  <2>4. CreateOK(next, record)
    BY <2>2, <2>3 DEF CreateOK
  <2>5. QED
    BY <2>1, <2>4, CreateLocal DEF CreateInv
<1>3. ASSUME NEW s \in Session, NEW d \in Dep, NEW v \in Version, PublishStandalone(s, d, v)
      PROVE  CreateInv'
  <2> DEFINE o == Opened("prepare", None, v, <<d>>, {d}, Copied(Blank, {d}, v))
  <2>1. sess' = [sess EXCEPT ![s] = o] /\ UNCHANGED <<record, posts>>
    BY <1>3 DEF PublishStandalone, Accept, gitea
  <2>2. CreateOK(o, record)
    BY CreateOpened
  <2> HIDE DEF o
  <2>3. QED
    BY <2>1, <2>2, CreateLocal DEF CreateInv
<1>4. ASSUME NEW s \in Session, SkipComponent(s) PROVE CreateInv'
  <2> DEFINE next == Following(s, sess[s].seen)
  <2>1. /\ next.version = sess[s].version /\ next.mine = sess[s].mine
        /\ next.seen = sess[s].seen /\ next.at \in {"aggregate", "prepare"}
    BY DEF Following, TypeInv, TypeOK, SessionState
  <2>2. sess' = [sess EXCEPT ![s] = next] /\ UNCHANGED <<record, posts>> /\ sess[s].at = "prepare"
    BY <1>4 DEF SkipComponent, gitea
  <2> HIDE DEF next
  <2>3. CreateOK(next, record)
    BY <1>1, <2>1, <2>2 DEF CreateOK
  <2>4. QED
    BY <2>2, <2>3, CreateLocal DEF CreateInv
<1>5. ASSUME NEW s \in Session, Misconfigured(s) PROVE CreateInv'
  <2>1. sess[s].at \in AtComponent /\ Current(s) \in Dep
    BY <1>5, CurrentType DEF Misconfigured, AtComponent
  <2>2. sess[s].mine.record[Current(s)] = "ABSENT" => sess[s].seen.record[Current(s)] = "ABSENT"
    BY <1>1, <2>1 DEF CreateOK
  <2>3. QED
    BY <1>5, <2>1, <2>2, CreateSettle DEF Misconfigured
<1>6. ASSUME NEW s \in Session, ReleaseReady(s) \/ TagTaken(s) \/ UpstreamFails(s)
      PROVE  CreateInv'
  BY <1>6, CreateSettle
     DEF ReleaseReady, TagTaken, UpstreamFails, Published, Failed, AtComponent
<1>7. ASSUME NEW s \in Session, CommitPublishing(s) PROVE CreateInv'
  <2> DEFINE next == [sess[s] EXCEPT !.at = "upstream", !.seen = sess[s].mine]
  <2>1. Flush(s, sess[s].mine, next) /\ UNCHANGED posts /\ sess[s].at = "publishing"
    BY <1>7 DEF CommitPublishing, gitea
  <2>2. /\ next.version = sess[s].version /\ next.mine = sess[s].mine
        /\ next.seen = sess[s].mine /\ next.at = "upstream" /\ next.todo = sess[s].todo
    BY DEF TypeInv, TypeOK, SessionState
  <2>3. CurrentKey(s) \in Key /\ CurrentKey(s)[1] = Current(s)
        /\ CurrentKey(s)[2] = sess[s].version
    BY <2>1, CurrentType DEF CurrentKey, AtComponent
  <2>4. sess[s].mine.record[Current(s)] # "ABSENT"
    BY <1>1, <2>1 DEF CreateOK, Current
  <2> HIDE DEF next
  <2>5. (\A k \in Key : k[2] = sess[s].version /\ sess[s].mine.record[k[1]] # "ABSENT"
                           => record'[k] # "ABSENT") => CreateOK(next, record')
    BY <2>2, <2>3, <2>4 DEF CreateOK, CurrentKey, Current
  <2>6. QED
    BY <2>1, <2>5, CreateFlush
<1>8. ASSUME NEW s \in Session, CreateRelease(s) PROVE CreateInv'
  <2> DEFINE next == [sess[s] EXCEPT !.at = "posted"]
  <2>1. /\ sess' = [sess EXCEPT ![s] = next] /\ UNCHANGED record
        /\ posts' = posts \cup {CurrentKey(s)} /\ sess[s].at = "upstream"
    BY <1>8 DEF CreateRelease
  <2>2. /\ next.version = sess[s].version /\ next.mine = sess[s].mine
        /\ next.seen = sess[s].seen /\ next.at = "posted" /\ next.todo = sess[s].todo
    BY DEF TypeInv, TypeOK, SessionState
  <2> HIDE DEF next
  <2>3. CreateOK(next, record) /\ record[CurrentKey(s)] # "ABSENT"
    BY <1>1, <2>1, <2>2 DEF CreateOK, CurrentKey, Current
  <2>4. QED
    BY <2>1, <2>3, CreateLocal DEF CreateInv
<1>9. ASSUME NEW s \in Session, CommitComponent(s) PROVE CreateInv'
  <2> DEFINE go == Following(s, sess[s].mine)
             next == IF sess[s].bundle = None THEN Idle ELSE go
  <2>1. Flush(s, sess[s].mine, next) /\ UNCHANGED posts
    BY <1>9 DEF CommitComponent, gitea
  <2>2. /\ go.version = sess[s].version /\ go.mine = sess[s].mine
        /\ go.seen = sess[s].mine /\ go.at \in {"aggregate", "prepare"}
    BY DEF Following, TypeInv, TypeOK, SessionState
  <2> HIDE DEF go
  <2>3. (\A k \in Key : k[2] = sess[s].version /\ sess[s].mine.record[k[1]] # "ABSENT"
                           => record'[k] # "ABSENT") => CreateOK(go, record')
    BY <2>2 DEF CreateOK
  <2>4. (\A k \in Key : k[2] = sess[s].version /\ sess[s].mine.record[k[1]] # "ABSENT"
                           => record'[k] # "ABSENT") => CreateOK(next, record')
    BY <2>3, CreateIdle
  <2> HIDE DEF next
  <2>5. QED
    BY <2>1, <2>4, CreateFlush
<1>10. ASSUME NEW s \in Session, Aggregate(s) PROVE CreateInv'
  <2>1. \E mine : Flush(s, mine, Idle) /\ mine.record = sess[s].mine.record
    BY <1>10, SMTT(60) DEF Aggregate, TypeInv, TypeOK, SessionState, Copy
  <2>2. PICK mine : Flush(s, mine, Idle) /\ mine.record = sess[s].mine.record
    BY <2>1
  <2>3. UNCHANGED posts
    BY <1>10 DEF Aggregate, gitea
  <2>4. CreateOK(Idle, record')
    BY CreateIdle
  <2>5. \A d \in Dep : mine.record[d] = sess[s].mine.record[d]
    BY <2>2
  <2>6. QED
    BY <2>2, <2>3, <2>4, <2>5, CreateFlush
<1>11. ASSUME NEW b \in Bundle, SweepBundle(b) PROVE CreateInv'
  <2>1. PICK verdict :
          sess' = [sess EXCEPT ![Worker] =
            [Opened("verdict", b, bundle[b].version, <<>>, {},
                    [NoCopy EXCEPT !.bundle = bundle[b]])
               EXCEPT !.mine.bundle.publish = verdict]]
    BY <1>11 DEF SweepBundle
  <2> DEFINE next == [Opened("verdict", b, bundle[b].version, <<>>, {},
                             [NoCopy EXCEPT !.bundle = bundle[b]])
                        EXCEPT !.mine.bundle.publish = verdict]
  <2>2. /\ next.at = "verdict"
        /\ \A d \in Dep : next.seen.record[d] = "ABSENT"
    BY SMTT(60) DEF Opened, Idle, NoCopy
  <2>3. sess' = [sess EXCEPT ![Worker] = next] /\ UNCHANGED <<record, posts>>
    BY <1>11, <2>1 DEF SweepBundle, gitea
  <2> HIDE DEF next
  <2>4. CreateOK(next, record)
    BY <2>2, KeyOfDep DEF CreateOK
  <2>5. QED
    BY <2>3, <2>4, CreateLocal DEF CreateInv
<1>12. ASSUME NEW d \in Dep, SweepDeployment(d) PROVE CreateInv'
  <2>1. PICK verdict :
          sess' = [sess EXCEPT ![Worker] =
            [Opened("verdict", None, deployment[d].version, <<>>, {},
                    [NoCopy EXCEPT !.deployment[d] = deployment[d]])
               EXCEPT !.mine.deployment[d].publish = verdict]]
    BY <1>12 DEF SweepDeployment
  <2> DEFINE next == [Opened("verdict", None, deployment[d].version, <<>>, {},
                             [NoCopy EXCEPT !.deployment[d] = deployment[d]])
                        EXCEPT !.mine.deployment[d].publish = verdict]
  <2>2. /\ next.at = "verdict"
        /\ \A e \in Dep : next.seen.record[e] = "ABSENT"
    BY SMTT(60) DEF Opened, Idle, NoCopy
  <2>3. sess' = [sess EXCEPT ![Worker] = next] /\ UNCHANGED <<record, posts>>
    BY <1>12, <2>1, ZenonT(60) DEF SweepDeployment, gitea
  <2> HIDE DEF next
  <2>4. CreateOK(next, record)
    BY <2>2, KeyOfDep DEF CreateOK
  <2>5. QED
    BY <2>3, <2>4, CreateLocal DEF CreateInv
<1>13. ASSUME CommitVerdict PROVE CreateInv'
  <2>1. Flush(Worker, sess[Worker].mine, Idle) /\ UNCHANGED posts
    BY <1>13 DEF CommitVerdict, gitea
  <2>2. CreateOK(Idle, record')
    BY CreateIdle
  <2>3. QED
    BY <2>1, <2>2, CreateFlush
<1>14. ASSUME NEW s \in Session, Raise(s) PROVE CreateInv'
  <2>1. sess' = [sess EXCEPT ![s] = Idle] /\ UNCHANGED <<record, posts>>
    BY <1>14 DEF Raise, gitea
  <2>2. QED
    BY <2>1, CreateIdle, CreateLocal DEF CreateInv
<1>15. ASSUME UNCHANGED <<record, posts, sess>> PROVE CreateInv'
  BY <1>15 DEF CreateInv, CreateOK
<1>16. ASSUME Environment PROVE UNCHANGED <<record, posts, sess>>
  BY <1>16 DEF Environment, BundleTimeout, DeploymentTimeout, EditComponent, HandleCreate,
     PushTag, gitea
<1>17. ASSUME NEW s \in Request, RequestStep(s) PROVE CreateInv'
  BY <1>2, <1>3, <1>4, <1>5, <1>6, <1>7, <1>8, <1>9, <1>10, <1>17, CreateLookUp
     DEF RequestStep, Standalone
<1>18. CASE WorkerStep
  BY <1>11, <1>12, <1>13, <1>18 DEF WorkerStep, Standalone
<1>19. QED
  BY <1>14, <1>15, <1>16, <1>17, <1>18 DEF Next, vars

LEMMA CreateInit == Init => CreateInv
BY CreateIdle DEF Init, CreateInv

LEMMA CreateInvariance == Spec => []CreateInv
<1>1. TypeInv /\ CreateInv /\ [Next]_vars => CreateInv'
  BY CreateStep
<1>2. QED
  BY <1>1, CreateInit, TypeInvariance, PTL DEF Spec

\* What the program asked Gitea to create has a record, through every crash
\* and every overwrite.
THEOREM CreatesRecorded == Spec => []CreatedIsRecorded
<1>1. CreateInv => CreatedIsRecorded
  BY DEF CreateInv, CreatedIsRecorded
<1>2. QED
  BY <1>1, CreateInvariance, PTL

----------------------------------------------------------------------------
(* A bundle that says PUBLISHED is out, as long as no component starts or  *)
(* stops publishing.                                                       *)

OutBundles ==
  {b \in Bundle : \E v \in Version : \A d \in DepsOf(b) \cap enabled : Ready(<<d, v>>)}
OutAlone == {d \in Standalone : \E v \in Version : Ready(<<d, v>>)}

\* x is a session; on are the deployments that publish, out and alone the
\* bundles and the deployments without a bundle that are in Gitea.  Only what
\* publishes has a record, so the records a session counts are those of the
\* deployments it went through, and a verdict or copy of PUBLISHED is true.
CompleteOK(x, on, out, alone) ==
  /\ x.bundle # None /\ x.at # "verdict" => x.publishing = DepsOf(x.bundle) \cap on
  /\ \A d \in Dep : x.mine.record[d] # "ABSENT" =>
       d \in on /\ (x.bundle # None => d \in DepsOf(x.bundle))
  /\ x.at \in {"publishing", "upstream", "posted"} =>
       Head(x.todo) \in on /\ (x.bundle # None => Head(x.todo) \in DepsOf(x.bundle))
  /\ x.bundle # None /\ x.mine.bundle.publish = "PUBLISHED" => x.bundle \in out
  /\ \A d \in Standalone : x.mine.deployment[d].publish = "PUBLISHED" => d \in alone

TablesComplete ==
  /\ \A k \in Key : record[k] # "ABSENT" => k[1] \in enabled
  /\ \A b \in Bundle : bundle[b].publish = "PUBLISHED" => b \in OutBundles
  /\ \A d \in Standalone : deployment[d].publish = "PUBLISHED" => d \in OutAlone

CompleteInv ==
  /\ TablesComplete
  /\ \A s \in Session : CompleteOK(sess[s], enabled, OutBundles, OutAlone)

LEMMA DepsAreDeps == \A b \in Bundle : DepsOf(b) \subseteq Dep /\ IsFiniteSet(DepsOf(b))
<1> SUFFICES ASSUME NEW b \in Bundle PROVE DepsOf(b) \subseteq Dep /\ IsFiniteSet(DepsOf(b))
  OBVIOUS
<1>1. Steps[b] \in Seq(Dep) /\ Len(Steps[b]) \in Nat
  BY StepsAssumption
<1>2. IsFiniteSet(1..Len(Steps[b]))
  BY <1>1, FS_Interval
<1>3. Steps[b] \in Surjection(1..Len(Steps[b]), DepsOf(b))
  BY <1>1 DEF Surjection, DepsOf
<1>4. QED
  BY <1>1, <1>2, <1>3, FS_Surjection DEF DepsOf

LEMMA EditsSpent ==
  ASSUME TypeInv, [Next]_vars, MaxEdits = 0
  PROVE  enabled' = enabled
<1>1. ~(edits < MaxEdits)
  BY DEF TypeInv, TypeOK
<1>2. ASSUME NEW s \in Request, RequestStep(s) PROVE enabled' = enabled
  BY <1>2 DEF RequestStep, PublishBundle, PublishStandalone, Accept, SkipComponent,
     Misconfigured, LookUpRecord, CommitPublishing, CreateRelease, ReleaseReady, TagTaken,
     UpstreamFails, Published, Failed, Settle, CommitComponent, Aggregate, bounds
<1>3. ASSUME WorkerStep PROVE enabled' = enabled
  BY <1>3, ZenonT(60) DEF WorkerStep, SweepBundle, SweepDeployment, CommitVerdict, bounds
<1>4. ASSUME Environment PROVE enabled' = enabled
  BY <1>1, <1>4 DEF Environment, BundleTimeout, DeploymentTimeout, EditComponent,
     HandleCreate, PushTag, bounds
<1>5. QED
  BY <1>2, <1>3, <1>4 DEF Next, Raise, bounds, vars

LEMMA OutStable ==
  ASSUME TypeInv, [Next]_vars, enabled' = enabled
  PROVE  enabled' = enabled /\ OutBundles \subseteq OutBundles' /\ OutAlone \subseteq OutAlone'
<1>1. enabled' = enabled
  OBVIOUS
<1>2. \A k \in Key : Ready(k) => Ready(k)'
  BY ReadyStable
<1>3. \A d \in Dep, v \in Version : Ready(<<d, v>>) => Ready(<<d, v>>)'
  BY <1>2 DEF Key
<1>4. OutBundles \subseteq OutBundles'
  BY <1>1, <1>3, DepsAreDeps DEF OutBundles
<1>5. OutAlone \subseteq OutAlone'
  BY <1>3 DEF OutAlone, Standalone
<1>6. QED
  BY <1>1, <1>4, <1>5

LEMMA CompleteIdle == ASSUME NEW on, NEW out, NEW alone PROVE CompleteOK(Idle, on, out, alone)
BY IdleFields DEF CompleteOK, Standalone

LEMMA CompleteGrows ==
  ASSUME NEW x, NEW on, NEW out, NEW alone, NEW out2, NEW alone2,
         CompleteOK(x, on, out, alone), out \subseteq out2, alone \subseteq alone2
  PROVE  CompleteOK(x, on, out2, alone2)
BY DEF CompleteOK

LEMMA CompleteSessions ==
  ASSUME TypeInv, CompleteInv, [Next]_vars, enabled' = enabled, NEW s \in Session, NEW next,
         sess' = [sess EXCEPT ![s] = next], CompleteOK(next, enabled, OutBundles, OutAlone)
  PROVE  \A q \in Session : CompleteOK(sess'[q], enabled', OutBundles', OutAlone')
<1>1. sess'[s] = next /\ \A q \in Session : q # s => sess'[q] = sess[q]
  BY DEF TypeInv, TypeOK
<1>2. \A q \in Session : CompleteOK(sess'[q], enabled, OutBundles, OutAlone)
  BY <1>1 DEF CompleteInv
<1>3. QED
  BY <1>2, OutStable, CompleteGrows

LEMMA CompleteLocal ==
  ASSUME TypeInv, CompleteInv, [Next]_vars, enabled' = enabled, NEW s \in Session, NEW next,
         sess' = [sess EXCEPT ![s] = next], UNCHANGED <<bundle, deployment, record>>,
         CompleteOK(next, enabled, OutBundles, OutAlone)
  PROVE  CompleteInv'
<1>1. TablesComplete'
  BY OutStable DEF CompleteInv, TablesComplete
<1>2. QED
  BY <1>1, CompleteSessions DEF CompleteInv

LEMMA CompleteFlush ==
  ASSUME TypeInv, CompleteInv, [Next]_vars, enabled' = enabled, NEW s \in Session,
         NEW mine, NEW next,
         Flush(s, mine, next),
         \A d \in Dep : mine.record[d] # "ABSENT" => d \in enabled,
         sess[s].bundle # None /\ mine.bundle.publish = "PUBLISHED" => sess[s].bundle \in OutBundles,
         \A d \in Standalone : mine.deployment[d].publish = "PUBLISHED" => d \in OutAlone,
         CompleteOK(next, enabled, OutBundles, OutAlone)
  PROVE  CompleteInv'
<1>1. \A k \in Key : record'[k] = record[k] \/ record'[k] = mine.record[k[1]]
  BY DEF Flush
<1>2. \A k \in Key : record'[k] # "ABSENT" => k[1] \in enabled
  BY <1>1, KeyOfDep DEF CompleteInv, TablesComplete
<1>3. ASSUME NEW b \in Bundle, bundle'[b].publish = "PUBLISHED" PROVE b \in OutBundles
  <2>1. \/ bundle'[b].publish = bundle[b].publish
        \/ b = sess[s].bundle /\ bundle'[b].publish = mine.bundle.publish
    BY DEF Flush, Merged
  <2>2. b # None
    BY ConstantsAssumption
  <2>3. QED
    BY <1>3, <2>1, <2>2 DEF CompleteInv, TablesComplete
<1>4. ASSUME NEW d \in Standalone, deployment'[d].publish = "PUBLISHED" PROVE d \in OutAlone
  <2>1. d \in Dep
    BY DEF Standalone
  <2>2. deployment'[d].publish \in {deployment[d].publish, mine.deployment[d].publish}
    BY <2>1 DEF Flush, Merged
  <2>3. QED
    BY <1>4, <2>2 DEF CompleteInv, TablesComplete
<1>5. TablesComplete'
  BY <1>2, <1>3, <1>4, OutStable DEF TablesComplete
<1>6. sess' = [sess EXCEPT ![s] = next]
  BY DEF Flush
<1>7. QED
  BY <1>5, <1>6, CompleteSessions DEF CompleteInv

\* A verdict of PUBLISHED: all that were to be published are, at least one.
LEMMA JudgedPublished ==
  ASSUME NEW S, IsFiniteSet(S), NEW T \in SUBSET S,
         Judged(Cardinality(T), Cardinality(S)) = "PUBLISHED"
  PROVE  T = S /\ T # {}
<1>1. Cardinality(T) = Cardinality(S) /\ Cardinality(T) > 0
  BY DEF Judged
<1>2. QED
  BY <1>1, FS_Subset, FS_EmptySet

LEMMA CompleteSettle ==
  ASSUME TypeInv, CompleteInv, [Next]_vars, enabled' = enabled, NEW s \in Session,
         sess[s].at \in {"prepare", "upstream", "posted"}, NEW p, NEW r, Settle(s, p, r),
         r # "ABSENT" => \/ sess[s].at # "prepare"
                         \/ sess[s].mine.record[Current(s)] # "ABSENT",
         p = "PUBLISHED" => Ready(CurrentKey(s))
  PROVE  CompleteInv'
<1> sess[s].at \in AtComponent
  BY DEF AtComponent
<1> DEFINE next == [sess[s] EXCEPT !.at = "settle", !.mine = With(s, p, r)]
<1>1. sess' = [sess EXCEPT ![s] = next] /\ UNCHANGED <<bundle, deployment, record>>
  BY SettleFields, ZenonT(60) DEF Settle
<1>2. /\ next.at = "settle" /\ next.bundle = sess[s].bundle /\ next.mine = With(s, p, r)
      /\ next.publishing = sess[s].publishing
  BY DEF TypeInv, TypeOK, SessionState
<1>3. CompleteOK(sess[s], enabled, OutBundles, OutAlone)
  BY DEF CompleteInv
<1>4. /\ Current(s) \in Dep /\ sess[s].version \in Version
      /\ CurrentKey(s) = <<Current(s), sess[s].version>>
  BY CurrentType DEF CurrentKey
<1> HIDE DEF next
<1>5. ASSUME NEW d \in Dep, next.mine.record[d] # "ABSENT"
      PROVE  d \in enabled /\ (next.bundle # None => d \in DepsOf(next.bundle))
  <2>1. CASE d # Current(s) \/ sess[s].mine.record[Current(s)] # "ABSENT"
    BY <1>2, <1>3, <1>5, <2>1, WithFields DEF CompleteOK
  <2>2. CASE d = Current(s) /\ sess[s].mine.record[Current(s)] = "ABSENT"
    <3>1. sess[s].at # "prepare"
      BY <1>2, <1>5, <2>2, WithFields
    <3>2. QED
      BY <1>2, <1>3, <2>2, <3>1 DEF CompleteOK, Current
  <2>3. QED
    BY <2>1, <2>2
<1>6. ASSUME NEW d \in Standalone, next.mine.deployment[d].publish = "PUBLISHED"
      PROVE  d \in OutAlone
  <2>1. d \in Dep
    BY DEF Standalone
  <2>2. CASE d = Current(s)
    BY <1>2, <1>4, <1>6, <2>2, WithFields DEF OutAlone
  <2>3. CASE d # Current(s)
    BY <1>2, <1>3, <1>6, <2>1, <2>3, WithFields DEF CompleteOK
  <2>4. QED
    BY <2>2, <2>3
<1>7. CompleteOK(next, enabled, OutBundles, OutAlone)
  BY <1>2, <1>3, <1>5, <1>6, WithFields DEF CompleteOK, AtComponent
<1>8. QED
  BY <1>1, <1>7, CompleteLocal

LEMMA CompleteLookUp ==
  ASSUME TypeInv, RecordInv, CompleteInv, [Next]_vars, enabled' = enabled, NEW s \in Session,
         LookUpRecord(s)
  PROVE  CompleteInv'
<1>1. PICK status \in {"PUBLISHED", "PUBLISHING"}, at \in {"settle", "publishing"},
            listed \in SUBSET Dep :
        /\ sess' = [sess EXCEPT ![s] = LookedUp(s, status, at, listed)]
        /\ (Found(s) = "PUBLISHED") = (status = "PUBLISHED")
  BY LookUpRecordStep
<1>2. /\ sess[s].at = "prepare" /\ sess[s].at \in AtComponent
      /\ Current(s) \in Dep /\ sess[s].version \in Version /\ CurrentKey(s) \in Key
      /\ CurrentKey(s) = <<Current(s), sess[s].version>>
  BY LookUpRecordStep, CurrentType, ZenonT(60) DEF LookUpRecord, CurrentKey
<1> DEFINE next == LookedUp(s, status, at, listed)
<1>3. /\ next.at = at /\ next.todo = sess[s].todo /\ next.mine = With(s, status, status)
      /\ next.bundle = sess[s].bundle /\ next.publishing = sess[s].publishing
  BY DEF LookedUp, TypeInv, TypeOK, SessionState, Copy
<1>4. /\ CompleteOK(sess[s], enabled, OutBundles, OutAlone)
      /\ UNCHANGED <<bundle, deployment, record>>
  BY DEF CompleteInv, LookUpRecord
<1>5. sess' = [sess EXCEPT ![s] = next]
  BY <1>1
<1> HIDE DEF next
<1>6. Current(s) \in enabled /\ (sess[s].bundle # None => Current(s) \in DepsOf(sess[s].bundle))
  <2>1. Current(s) \in sess[s].publishing
    BY LookUpRecordStep
  <2>2. CASE sess[s].bundle = None
    BY <2>2 DEF LookUpRecord
  <2>3. CASE sess[s].bundle # None
    BY <1>2, <1>4, <2>1, <2>3 DEF CompleteOK
  <2>4. QED
    BY <2>2, <2>3
<1>7. status = "PUBLISHED" => Ready(CurrentKey(s))
  <2> SUFFICES ASSUME status = "PUBLISHED" PROVE Ready(CurrentKey(s))
    OBVIOUS
  <2>1. Found(s) = "PUBLISHED"
    BY <1>1
  <2>2. \/ record[CurrentKey(s)] = "PUBLISHED"
        \/ sess[s].mine.record[Current(s)] = "PUBLISHED"
    BY <2>1 DEF Found
  <2>3. CurrentKey(s)[1] = Current(s) /\ CurrentKey(s)[2] = sess[s].version
    BY <1>2
  <2>4. QED
    BY <1>2, <2>2, <2>3 DEF RecordInv
<1>8. \A d \in Dep : next.mine.record[d] # "ABSENT" =>
        d \in enabled /\ (next.bundle # None => d \in DepsOf(next.bundle))
  BY <1>2, <1>3, <1>4, <1>6, WithFields DEF CompleteOK
<1>9. ASSUME NEW d \in Standalone, next.mine.deployment[d].publish = "PUBLISHED"
      PROVE  d \in OutAlone
  <2>1. d \in Dep
    BY DEF Standalone
  <2>2. CASE d = Current(s)
    BY <1>2, <1>3, <1>7, <1>9, <2>2, WithFields DEF OutAlone
  <2>3. CASE d # Current(s)
    BY <1>2, <1>3, <1>4, <1>9, <2>1, <2>3, WithFields DEF CompleteOK
  <2>4. QED
    BY <2>2, <2>3
<1>10. CompleteOK(next, enabled, OutBundles, OutAlone)
  BY <1>2, <1>3, <1>4, <1>6, <1>8, <1>9, WithFields DEF CompleteOK, Current
<1>11. QED
  BY <1>4, <1>5, <1>10, CompleteLocal

LEMMA CompletePublish ==
  ASSUME TypeInv, CompleteInv, [Next]_vars, enabled' = enabled, NEW s \in Session,
         NEW b \in Bundle, NEW v \in Version, PublishBundle(s, b, v)
  PROVE  CompleteInv'
<1> DEFINE copy == Copied(bundle[b], DepsOf(b), v)
           next == [Opened("prepare", b, v, Steps[b], DepsOf(b) \cap enabled, copy)
                      EXCEPT !.mine.bundle = Started(bundle[b], v)]
<1>1. sess' = [sess EXCEPT ![s] = next] /\ UNCHANGED <<bundle, deployment, record>>
  BY DEF PublishBundle, Accept
<1>2. /\ next.at = "prepare" /\ next.bundle = b /\ next.publishing = DepsOf(b) \cap enabled
      /\ next.mine.bundle.publish = "PUBLISHING"
      /\ next.mine.record = copy.record /\ next.mine.deployment = copy.deployment
  BY DEF Opened, Idle, Copied, Started
<1>3. \A d \in Dep : copy.record[d] # "ABSENT" => d \in DepsOf(b) /\ record[<<d, v>>] # "ABSENT"
  BY DEF Copied
<1>4. \A d \in Dep : <<d, v>> \in Key
  BY DEF Key
<1>5. \A d \in Dep : copy.record[d] # "ABSENT" => d \in DepsOf(b) /\ d \in enabled
  BY <1>3, <1>4 DEF CompleteInv, TablesComplete
<1>6. ASSUME NEW d \in Standalone PROVE copy.deployment[d].publish = "NOT_PUBLISHED"
  BY DEF Standalone, Copied, Blank
<1> HIDE DEF next, copy
<1>7. CompleteOK(next, enabled, OutBundles, OutAlone)
  BY <1>2, <1>5, <1>6 DEF CompleteOK
<1>8. QED
  BY <1>1, <1>7, CompleteLocal

LEMMA CompleteAlone ==
  ASSUME TypeInv, CompleteInv, [Next]_vars, enabled' = enabled, NEW s \in Session,
         NEW d \in Standalone, NEW v \in Version, PublishStandalone(s, d, v)
  PROVE  CompleteInv'
<1> DEFINE copy == Copied(Blank, {d}, v)
           next == Opened("prepare", None, v, <<d>>, {d}, copy)
<1>1. sess' = [sess EXCEPT ![s] = next] /\ UNCHANGED <<bundle, deployment, record>>
  BY DEF PublishStandalone, Accept
<1>2. next.at = "prepare" /\ next.bundle = None /\ next.mine = copy
  BY DEF Opened, Idle
<1>3. \A e \in Dep : copy.record[e] # "ABSENT" => record[<<e, v>>] # "ABSENT"
  BY DEF Copied
<1>4. \A e \in Dep : <<e, v>> \in Key
  BY DEF Key
<1>5. \A e \in Dep : copy.record[e] # "ABSENT" => e \in enabled
  BY <1>3, <1>4 DEF CompleteInv, TablesComplete
<1>6. ASSUME NEW e \in Standalone, copy.deployment[e].publish = "PUBLISHED"
      PROVE  e \in OutAlone
  <2>1. e \in Dep /\ Blank.publish # "PUBLISHED"
    BY DEF Standalone, Blank
  <2>2. copy.deployment[e] \in {deployment[e], Blank}
    BY <2>1 DEF Copied
  <2>3. QED
    BY <1>6, <2>1, <2>2 DEF CompleteInv, TablesComplete
<1> HIDE DEF next, copy
<1>7. CompleteOK(next, enabled, OutBundles, OutAlone)
  BY <1>2, <1>5, <1>6 DEF CompleteOK
<1>8. QED
  BY <1>1, <1>7, CompleteLocal

\* What a session may write of its own copy.
LEMMA CompleteCopy ==
  ASSUME CompleteInv, NEW s \in Session
  PROVE  /\ \A d \in Dep : sess[s].mine.record[d] # "ABSENT" => d \in enabled
         /\ sess[s].bundle # None /\ sess[s].mine.bundle.publish = "PUBLISHED"
              => sess[s].bundle \in OutBundles
         /\ \A d \in Standalone : sess[s].mine.deployment[d].publish = "PUBLISHED"
              => d \in OutAlone
BY DEF CompleteInv, CompleteOK

\* All that were to be published have a record of it, which is right.
LEMMA CompleteAggregate ==
  ASSUME TypeInv, RecordInv, CompleteInv, [Next]_vars, enabled' = enabled, NEW s \in Session,
         Aggregate(s)
  PROVE  CompleteInv'
<1> DEFINE published == {d \in sess[s].listed : sess[s].mine.record[d] = "PUBLISHED"}
           verdict == Judged(Cardinality(published), Cardinality(sess[s].publishing))
           mine == [sess[s].mine EXCEPT !.bundle.publish = verdict]
<1>1. Flush(s, mine, Idle) /\ sess[s].at = "aggregate"
  BY DEF Aggregate
<1>2. /\ sess[s] \in SessionState /\ sess[s].version \in Version
      /\ CompleteOK(sess[s], enabled, OutBundles, OutAlone)
  BY <1>1 DEF TypeInv, TypeOK, Working, CompleteInv
<1>3. /\ mine.record = sess[s].mine.record /\ mine.deployment = sess[s].mine.deployment
      /\ mine.bundle.publish = verdict
  BY <1>2 DEF SessionState, Copy, Row
<1>4. ASSUME sess[s].bundle # None, verdict = "PUBLISHED" PROVE sess[s].bundle \in OutBundles
  <2> DEFINE b == sess[s].bundle
  <2>1. b \in Bundle /\ sess[s].publishing = DepsOf(b) \cap enabled
    BY <1>1, <1>2, <1>4 DEF SessionState, CompleteOK
  <2>2. sess[s].publishing \subseteq Dep /\ IsFiniteSet(sess[s].publishing)
    BY <2>1, DepsAreDeps, FS_Subset
  <2>3. published \subseteq sess[s].publishing
    BY <1>2, <1>4, <2>1 DEF CompleteOK, SessionState
  <2>4. published = sess[s].publishing
    BY <1>4, <2>2, <2>3, JudgedPublished
  <2>5. ASSUME NEW d \in DepsOf(b) \cap enabled PROVE Ready(<<d, sess[s].version>>)
    <3>1. d \in Dep /\ sess[s].mine.record[d] = "PUBLISHED"
      BY <2>1, <2>2, <2>4
    <3>2. <<d, sess[s].version>> \in Key
      BY <1>2, <3>1 DEF Key
    <3>3. <<d, sess[s].version>>[1] = d /\ <<d, sess[s].version>>[2] = sess[s].version
      OBVIOUS
    <3>4. QED
      BY <3>1, <3>2, <3>3 DEF RecordInv
  <2>6. QED
    BY <1>2, <2>1, <2>5 DEF OutBundles
<1> HIDE DEF mine, verdict
<1>5. QED
  BY <1>1, <1>3, <1>4, CompleteIdle, CompleteCopy, CompleteFlush

\* The worker finds a record of every component, all of one version.
LEMMA CompleteSweep ==
  ASSUME TypeInv, RecordInv, CompleteInv, [Next]_vars, enabled' = enabled, NEW b \in Bundle,
         SweepBundle(b)
  PROVE  CompleteInv'
<1> DEFINE v == bundle[b].version
           verdict == Judged(Cardinality(PublishedOf(DepsOf(b), v)), Cardinality(DepsOf(b)))
           next == [Opened("verdict", b, v, <<>>, {}, [NoCopy EXCEPT !.bundle = bundle[b]])
                      EXCEPT !.mine.bundle.publish = verdict]
<1>1. sess' = [sess EXCEPT ![Worker] = next] /\ UNCHANGED <<bundle, deployment, record>>
  BY DEF SweepBundle
<1>2. bundle[b] \in Row
  BY DEF TypeInv, TypeOK
<1>3. /\ next.at = "verdict" /\ next.bundle = b /\ next.mine.bundle.publish = verdict
      /\ \A d \in Dep : next.mine.record[d] = "ABSENT"
      /\ \A d \in Dep : next.mine.deployment[d].publish = "NOT_PUBLISHED"
  BY <1>2 DEF Opened, Idle, NoCopy, Blank, Row
<1>4. ASSUME verdict = "PUBLISHED" PROVE b \in OutBundles
  <2>1. PublishedOf(DepsOf(b), v) \subseteq DepsOf(b)
    BY DEF PublishedOf
  <2>2. PublishedOf(DepsOf(b), v) = DepsOf(b) /\ DepsOf(b) # {}
    BY <1>4, <2>1, DepsAreDeps, JudgedPublished
  <2>3. ASSUME NEW d \in DepsOf(b) PROVE Ready(<<d, v>>) /\ v \in Version
    <3>1. PICK k \in Key : k = <<d, v>> /\ record[k] = "PUBLISHED"
      BY <2>2 DEF PublishedOf
    <3>2. QED
      BY <3>1 DEF RecordInv, Key
  <2>4. QED
    BY <2>2, <2>3 DEF OutBundles
<1> HIDE DEF next, verdict
<1>5. \A d \in Standalone : d \in Dep
  BY DEF Standalone
<1>6. CompleteOK(next, enabled, OutBundles, OutAlone)
  BY <1>3, <1>4, <1>5 DEF CompleteOK
<1>7. QED
  BY <1>1, <1>6, CompleteLocal, SessionFacts

LEMMA CompleteSweepAlone ==
  ASSUME TypeInv, RecordInv, CompleteInv, [Next]_vars, enabled' = enabled, NEW d \in Standalone,
         SweepDeployment(d)
  PROVE  CompleteInv'
<1> DEFINE v == deployment[d].version
           verdict == Judged(Cardinality(PublishedOf({d}, v)), 1)
           next == [Opened("verdict", None, v, <<>>, {},
                           [NoCopy EXCEPT !.deployment[d] = deployment[d]])
                      EXCEPT !.mine.deployment[d].publish = verdict]
<1>1. sess' = [sess EXCEPT ![Worker] = next] /\ UNCHANGED <<bundle, deployment, record>>
  BY DEF SweepDeployment
<1>2. d \in Dep /\ deployment[d] \in Row /\ \A e \in Standalone : e \in Dep
  BY DEF TypeInv, TypeOK, Standalone
<1>3. /\ next.at = "verdict" /\ next.bundle = None
      /\ \A e \in Dep : next.mine.record[e] = "ABSENT"
      /\ next.mine.deployment[d].publish = verdict
      /\ \A e \in Dep : e # d => next.mine.deployment[e].publish = "NOT_PUBLISHED"
  BY <1>2, ZenonT(60) DEF Opened, Idle, NoCopy, Blank, Row
<1>4. ASSUME verdict = "PUBLISHED" PROVE d \in OutAlone
  <2> DEFINE T == PublishedOf({d}, v)
  <2>1. T \subseteq {d} /\ IsFiniteSet({d}) /\ Cardinality({d}) = 1
    BY FS_Singleton DEF PublishedOf
  <2>2. Judged(Cardinality(T), Cardinality({d})) = "PUBLISHED"
    BY <1>4, <2>1
  <2> HIDE DEF T
  <2>3. T = {d}
    BY <2>1, <2>2, JudgedPublished
  <2>4. PICK k \in Key : k = <<d, v>> /\ record[k] = "PUBLISHED"
    BY <2>3 DEF PublishedOf, T
  <2>5. Ready(<<d, v>>) /\ v \in Version
    BY <2>4 DEF RecordInv, Key
  <2>6. QED
    BY <2>5 DEF OutAlone
<1> HIDE DEF next, verdict
<1>5. CompleteOK(next, enabled, OutBundles, OutAlone)
  BY <1>2, <1>3, <1>4 DEF CompleteOK
<1>6. QED
  BY <1>1, <1>5, CompleteLocal, SessionFacts

LEMMA CompleteStep ==
  ASSUME TypeInv, RecordInv, CompleteInv, [Next]_vars, enabled' = enabled
  PROVE  CompleteInv'
<1> USE SessionFacts
<1>1. \A s \in Session : CompleteOK(sess[s], enabled, OutBundles, OutAlone)
  BY DEF CompleteInv
<1>2. ASSUME NEW s \in Session, SkipComponent(s) PROVE CompleteInv'
  <2> DEFINE next == Following(s, sess[s].seen)
  <2>1. /\ next.bundle = sess[s].bundle /\ next.mine = sess[s].mine
        /\ next.publishing = sess[s].publishing /\ next.at \in {"aggregate", "prepare"}
    BY DEF Following, TypeInv, TypeOK, SessionState
  <2>2. /\ sess' = [sess EXCEPT ![s] = next] /\ UNCHANGED <<bundle, deployment, record>>
        /\ sess[s].at = "prepare"
    BY <1>2 DEF SkipComponent
  <2> HIDE DEF next
  <2>3. CompleteOK(next, enabled, OutBundles, OutAlone)
    BY <1>1, <2>1, <2>2 DEF CompleteOK
  <2>4. QED
    BY <2>2, <2>3, CompleteLocal
<1>3. ASSUME NEW s \in Session, Misconfigured(s) PROVE CompleteInv'
  BY <1>3, CompleteSettle DEF Misconfigured
<1>4. ASSUME NEW s \in Session, ReleaseReady(s) \/ TagTaken(s) \/ UpstreamFails(s)
      PROVE  CompleteInv'
  BY <1>4, CompleteSettle DEF ReleaseReady, TagTaken, UpstreamFails, Published, Failed
<1>5. ASSUME NEW s \in Session, CommitPublishing(s) PROVE CompleteInv'
  <2> DEFINE next == [sess[s] EXCEPT !.at = "upstream", !.seen = sess[s].mine]
  <2>1. Flush(s, sess[s].mine, next) /\ sess[s].at = "publishing"
    BY <1>5 DEF CommitPublishing
  <2>2. /\ next.at = "upstream" /\ next.bundle = sess[s].bundle /\ next.mine = sess[s].mine
        /\ next.publishing = sess[s].publishing /\ next.todo = sess[s].todo
    BY DEF TypeInv, TypeOK, SessionState
  <2> HIDE DEF next
  <2>3. CompleteOK(next, enabled, OutBundles, OutAlone)
    BY <1>1, <2>1, <2>2 DEF CompleteOK
  <2>4. QED
    BY <2>1, <2>3, CompleteCopy, CompleteFlush
<1>6. ASSUME NEW s \in Session, CreateRelease(s) PROVE CompleteInv'
  <2> DEFINE next == [sess[s] EXCEPT !.at = "posted"]
  <2>1. /\ sess' = [sess EXCEPT ![s] = next] /\ UNCHANGED <<bundle, deployment, record>>
        /\ sess[s].at = "upstream"
    BY <1>6 DEF CreateRelease
  <2>2. /\ next.at = "posted" /\ next.bundle = sess[s].bundle /\ next.mine = sess[s].mine
        /\ next.publishing = sess[s].publishing /\ next.todo = sess[s].todo
    BY DEF TypeInv, TypeOK, SessionState
  <2> HIDE DEF next
  <2>3. CompleteOK(next, enabled, OutBundles, OutAlone)
    BY <1>1, <2>1, <2>2 DEF CompleteOK
  <2>4. QED
    BY <2>1, <2>3, CompleteLocal
<1>7. ASSUME NEW s \in Session, CommitComponent(s) PROVE CompleteInv'
  <2> DEFINE go == Following(s, sess[s].mine)
             next == IF sess[s].bundle = None THEN Idle ELSE go
  <2>1. Flush(s, sess[s].mine, next) /\ sess[s].at = "settle"
    BY <1>7 DEF CommitComponent
  <2>2. /\ go.bundle = sess[s].bundle /\ go.mine = sess[s].mine
        /\ go.publishing = sess[s].publishing /\ go.at \in {"aggregate", "prepare"}
    BY DEF Following, TypeInv, TypeOK, SessionState
  <2> HIDE DEF go
  <2>3. CompleteOK(go, enabled, OutBundles, OutAlone)
    BY <1>1, <2>1, <2>2 DEF CompleteOK
  <2>4. CompleteOK(next, enabled, OutBundles, OutAlone)
    BY <2>3, CompleteIdle
  <2> HIDE DEF next
  <2>5. QED
    BY <2>1, <2>4, CompleteCopy, CompleteFlush
<1>8. ASSUME CommitVerdict PROVE CompleteInv'
  <2>1. Flush(Worker, sess[Worker].mine, Idle)
    BY <1>8 DEF CommitVerdict
  <2>2. QED
    BY <2>1, CompleteIdle, CompleteCopy, CompleteFlush
<1>9. ASSUME NEW s \in Session, Raise(s) PROVE CompleteInv'
  BY <1>9, CompleteIdle, CompleteLocal DEF Raise
<1>10. ASSUME UNCHANGED <<record, sess>>,
              \A b \in Bundle : bundle'[b].publish = bundle[b].publish,
              \A d \in Dep : deployment'[d].publish = deployment[d].publish
       PROVE  CompleteInv'
  <2>1. TablesComplete'
    BY <1>10, OutStable DEF CompleteInv, TablesComplete, Standalone
  <2>2. \A s \in Session : CompleteOK(sess'[s], enabled', OutBundles', OutAlone')
    BY <1>1, <1>10, OutStable, CompleteGrows
  <2>3. QED
    BY <2>1, <2>2 DEF CompleteInv
<1>11. CASE Environment
  <2>1. UNCHANGED <<record, sess>>
    BY <1>11 DEF Environment, BundleTimeout, DeploymentTimeout, EditComponent, HandleCreate,
       PushTag, gitea
  <2>2. \A b \in Bundle : bundle'[b].publish = bundle[b].publish
    BY <1>11 DEF Environment, BundleTimeout, DeploymentTimeout, EditComponent, HandleCreate,
       PushTag, TypeInv, TypeOK, Row
  <2>3. \A d \in Dep : deployment'[d].publish = deployment[d].publish
    BY <1>11 DEF Environment, BundleTimeout, DeploymentTimeout, EditComponent, HandleCreate,
       PushTag, TypeInv, TypeOK, Row
  <2>4. QED
    BY <1>10, <2>1, <2>2, <2>3
<1>12. ASSUME NEW s \in Request, RequestStep(s) PROVE CompleteInv'
  BY <1>2, <1>3, <1>4, <1>5, <1>6, <1>7, <1>12, CompletePublish, CompleteAlone,
     CompleteLookUp, CompleteAggregate
     DEF RequestStep
<1>13. CASE WorkerStep
  BY <1>8, <1>13, CompleteSweep, CompleteSweepAlone DEF WorkerStep
<1>14. CASE UNCHANGED vars
  BY <1>10, <1>14 DEF vars
<1>15. QED
  BY <1>9, <1>11, <1>12, <1>13, <1>14 DEF Next

LEMMA CompleteInit == Init => CompleteInv
BY CompleteIdle DEF Init, CompleteInv, TablesComplete, Blank, Standalone

\* In a run in which no component starts or stops publishing, a bundle is
\* PUBLISHED only when every component that publishes is out in one version: by
\* whatever mix of requests, of the worker's verdicts, of stale writes and crashes.
THEOREM PublishedWhileUnedited ==
  Spec /\ [][UNCHANGED enabled]_vars => []PublishedIsComplete
<1>1. CompleteInv => PublishedIsComplete
  BY DEF CompleteInv, TablesComplete, OutBundles, OutAlone, PublishedIsComplete
<1>2. TypeInv /\ RecordInv /\ CompleteInv /\ [Next]_vars /\ [UNCHANGED enabled]_vars
        => CompleteInv'
  <2>1. [UNCHANGED enabled]_vars => enabled' = enabled
    BY DEF vars
  <2>2. QED
    BY <2>1, CompleteStep
<1>3. QED
  BY <1>1, <1>2, CompleteInit, TypeInvariance, RecordInvariance, PTL DEF Spec

\* The runs that make no such edit (MaxEdits = 0) are all of this kind.
THEOREM CompleteWhenPublished ==
  ASSUME MaxEdits = 0
  PROVE  Spec => []PublishedIsComplete
<1>1. TypeInv /\ [Next]_vars => [UNCHANGED enabled]_vars
  BY EditsSpent
<1>2. Spec => [][UNCHANGED enabled]_vars
  BY <1>1, TypeInvariance, PTL DEF Spec
<1>3. QED
  BY <1>2, PublishedWhileUnedited, PTL
=============================================================================
