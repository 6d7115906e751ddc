--------------------------- MODULE AssistantProofs ---------------------------
(***************************************************************************)
(* What the tabs of app.py guarantee for any number of threads, skills,    *)
(* frameworks, rounds and crashes: types, the files and the index of the   *)
(* external skills, the tool loop and the skills suggested for a stack,    *)
(* and that no turn goes on for ever.                                      *)
(***************************************************************************)
EXTENDS Assistant, NumberProofs, SequenceTheorems

(***************************************************************************)
(* SkillCatalog.  A thread that was not disturbed by a failed load has the *)
(* whole index from the moment its load is done, so that what it returns   *)
(* is cut from all the matches; and one that is about to write writes the  *)
(* file of a skill that exists.                                            *)
(***************************************************************************)
CallOK(t) ==
    /\ doing[t] \in {"check_member", "member", "cached", "open", "fill", "raised"} => op[t] = "fetch"
    /\ doing[t] \in {"open", "fill"} => name[t] \in External
    /\ ~spoiled[t] /\ doing[t] \in {"open_index", "fill_index", "starts", "contains"} => index = External
    /\ ~spoiled[t] /\ doing[t] = "contains" => hits[t] = Prefixed
    /\ ~spoiled[t] /\ doing[t] = "answered" /\ op[t] = "search" =>
           hits[t] \in {Cut(Prefixed, Inside, Limit), Cut(External, {}, Limit)}

CatalogInv == CatalogTypeOK /\ (\A t \in Threads : CallOK(t)) /\ PartsHaveWriters

\* What the tool loop and the boot do to the catalog.
CatalogMove(t) ==
    \/ CatalogStep(t)
    \/ StartSearch(t) \/ (\E n \in Names : StartFetch(t, n)) \/ Boot(t)
    \/ (At(t, "answered") \/ At(t, "raised")) /\ Return(t)

LEMMA UnaskedIsName == Unasked \in Names
BY CatalogAssumption DEF Unasked, Names

\* A step of one thread that fails no load and writes no file.
LEMMA QuietStep ==
    ASSUME CatalogInv, NEW t \in Threads, NEW phase \in Phases,
           Go(t, phase), doing[t] \notin {"fill", "fill_index"}, phase \notin {"fill", "fill_index"},
           up' \in BOOLEAN, index' \in {index, External}, UNCHANGED <<file, torn, crashes>>,
           op' \in [Threads -> Ops], name' \in [Threads -> Names],
           hits' \in [Threads -> SUBSET External], spoiled' \in [Threads -> BOOLEAN],
           \A u \in Threads \ {t} : /\ op'[u] = op[u] /\ name'[u] = name[u]
                                    /\ hits'[u] = hits[u] /\ spoiled'[u] = spoiled[u],
           CallOK(t)'
    PROVE  CatalogInv'
<1> USE DEF CatalogInv, CatalogTypeOK, Go
<1>1. CatalogTypeOK'
  OBVIOUS
<1>2. ASSUME NEW u \in Threads \ {t} PROVE CallOK(u)'
  BY <1>2 DEF CallOK
<1>3. \A u \in Threads : Writing(u)' = Writing(u)
  <2> TAKE u \in Threads
  <2>1. CASE u = t
    BY <2>1 DEF Writing, At
  <2>2. CASE u # t
    BY <2>2 DEF Writing, At
  <2> QED
    BY <2>1, <2>2
<1>4. PartsHaveWriters'
  <2> SUFFICES ASSUME NEW f \in Files, file'[f] = "part"
               PROVE  f \in torn' \/ \E u \in Threads : f \in Writing(u)'
    BY DEF PartsHaveWriters
  <2>1. f \in torn \/ \E u \in Threads : f \in Writing(u)
    BY DEF PartsHaveWriters
  <2> QED
    BY <2>1, <1>3
<1> QED
  BY <1>1, <1>2, <1>4

LEMMA LoadKeeps ==
    ASSUME CatalogInv, NEW t \in Threads, Load(t)
    PROVE  CatalogInv'
<1> USE DEF CatalogInv, CatalogTypeOK
<1>1. AfterLoad(t) \in {"free", "check_member", "starts"} /\ (AfterLoad(t) = "check_member" => op[t] = "fetch")
  BY DEF AfterLoad
<1>2. CASE ReadCache(t)
  BY <1>1, <1>2, QuietStep, ZenonT(40) DEF ReadCache, Loaded, Go, At, Phases, CallOK
<1>3. CASE MissCache(t)
  BY <1>3, QuietStep, ZenonT(40) DEF MissCache, Go, At, Phases, CallOK
<1>4. CASE Download(t)
  BY <1>4, QuietStep, ZenonT(40) DEF Download, Go, At, Phases, CallOK
<1>5. CASE DownloadFails(t)
  <2> USE <1>5 DEF DownloadFails, Loaded, Go, At
  <2>1. CatalogTypeOK'
    BY <1>1 DEF Phases
  <2>2. ASSUME NEW u \in Threads PROVE CallOK(u)'
    BY <1>1, <2>2 DEF CallOK
  <2>3. \A u \in Threads : Writing(u)' = Writing(u)
    BY <1>1 DEF Writing
  <2>4. PartsHaveWriters'
    BY <2>3 DEF PartsHaveWriters
  <2> QED
    BY <2>1, <2>2, <2>4
<1>6. CASE OpenIndex(t)
  <2> USE <1>6 DEF OpenIndex, Open, Go, At
  <2>1. CatalogTypeOK'
    BY DEF Phases, Files
  <2>2. ASSUME NEW u \in Threads PROVE CallOK(u)'
    BY <2>2 DEF CallOK
  <2>3. Writing(t)' = {IndexFile} /\ \A u \in Threads \ {t} : Writing(u)' = Writing(u)
    BY DEF Writing
  <2>4. Writing(t) = {}
    BY DEF Writing
  <2>5. PartsHaveWriters'
    BY <2>3, <2>4 DEF PartsHaveWriters
  <2> QED
    BY <2>1, <2>2, <2>5
<1>7. CASE FillIndex(t)
  <2> USE <1>7 DEF FillIndex, Fill, Loaded, Go, At
  <2>1. CatalogTypeOK'
    BY <1>1 DEF Phases, Files
  <2>2. ASSUME NEW u \in Threads PROVE CallOK(u)'
    BY <1>1, <2>2 DEF CallOK
  <2>3. Writing(t) = {IndexFile} /\ \A u \in Threads \ {t} : Writing(u)' = Writing(u)
    BY DEF Writing
  <2>4. PartsHaveWriters'
    <3> SUFFICES ASSUME NEW f \in Files, file'[f] = "part"
                 PROVE  f \in torn' \/ \E u \in Threads : f \in Writing(u)'
      BY DEF PartsHaveWriters
    <3>1. f # IndexFile /\ file[f] = "part"
      OBVIOUS
    <3>2. f \in torn \/ \E u \in Threads : f \in Writing(u)
      BY <3>1 DEF PartsHaveWriters
    <3> QED
      BY <3>1, <3>2, <2>3
  <2> QED
    BY <2>1, <2>2, <2>4
<1> QED
  BY <1>2, <1>3, <1>4, <1>5, <1>6, <1>7 DEF Load

LEMMA MoveKeeps ==
    ASSUME CatalogInv, NEW t \in Threads, CatalogMove(t)
    PROVE  CatalogInv'
<1> USE DEF CatalogInv, CatalogTypeOK
<1>0. AfterLoad(t) \in {"free", "check_member", "starts"} /\ (AfterLoad(t) = "check_member" => op[t] = "fetch")
  BY DEF AfterLoad
<1>1. CASE Check(t)
  <2>1. CASE index = {}
    <3>1. CallOK(t)'
      BY <1>1, <2>1 DEF Check, Go, At, CallOK
    <3> QED
      BY <1>1, <2>1, <3>1, QuietStep DEF Check, Go, At, Phases
  <2>2. CASE index # {}
    <3>1. AfterLoad(t) \in Phases
      BY <1>0 DEF Phases
    <3>2. CallOK(t)'
      BY <1>0, <1>1, <2>2 DEF Check, Go, At, CallOK
    <3> QED
      BY <1>0, <1>1, <2>2, <3>1, <3>2, QuietStep DEF Check, Go, At
  <2> QED
    BY <2>1, <2>2
<1>2. CASE Load(t)
  BY <1>2, LoadKeeps
<1>3. CASE ListAll(t)
  <2>1. CallOK(t)'
    BY <1>3 DEF ListAll, Go, At, CallOK, LimitOf
  <2>2. Cut(index, {}, LimitOf(t)) \in SUBSET External
    BY DEF Cut
  <2>3. hits' \in [Threads -> SUBSET External]
    BY <1>3, <2>2 DEF ListAll
  <2> QED
    BY <1>3, <2>1, <2>3, QuietStep DEF ListAll, Go, At, Phases
<1>4. CASE ScanStarts(t)
  <2>1. CallOK(t)'
    BY <1>4, CatalogAssumption DEF ScanStarts, Go, At, CallOK
  <2> QED
    BY <1>4, <2>1, QuietStep DEF ScanStarts, Go, At, Phases
<1>5. CASE ScanContains(t)
  <2> DEFINE others == (index \cap (Prefixed \cup Inside)) \ hits[t]
             found == Cut(hits[t], others, LimitOf(t))
  <2>1. hits' = [hits EXCEPT ![t] = found]
    BY <1>5 DEF ScanContains
  <2>2. found \in SUBSET External
    BY DEF Cut
  <2>3. ~spoiled[t] => hits[t] = Prefixed /\ others = Inside
    BY <1>5, CatalogAssumption DEF ScanContains, At, CallOK
  <2>4. ~spoiled[t] /\ op[t] = "search" => found = Cut(Prefixed, Inside, Limit)
    BY <2>3 DEF LimitOf
  <2> HIDE DEF others, found
  <2>5. hits' \in [Threads -> SUBSET External] /\ hits'[t] = found
    BY <2>1, <2>2
  <2>6. CallOK(t)'
    BY <1>5, <2>4, <2>5 DEF ScanContains, Go, At, CallOK
  <2> QED
    BY <1>5, <2>1, <2>5, <2>6, QuietStep DEF ScanContains, Go, At, Phases
<1>6. CASE CheckMember(t) \/ Member(t)
  <2>1. CASE CheckMember(t) /\ index = {}
    <3>1. CallOK(t)'
      BY <2>1 DEF CheckMember, Go, At, CallOK
    <3> QED
      BY <2>1, <3>1, QuietStep DEF CheckMember, Go, At, Phases
  <2>2. CASE CheckMember(t) /\ index # {}
    <3>1. CallOK(t)'
      BY <2>2 DEF CheckMember, Go, At, CallOK
    <3> QED
      BY <2>2, <3>1, QuietStep DEF CheckMember, Go, At, Phases
  <2>3. CASE Member(t)
    <3>1. CallOK(t)'
      BY <2>3 DEF Member, Go, At, CallOK
    <3> QED
      BY <2>3, <3>1, QuietStep DEF Member, Go, At, Phases
  <2> QED
    BY <1>6, <2>1, <2>2, <2>3
<1>7. CASE NoMember(t)
  BY <1>7, UnaskedIsName, QuietStep, ZenonT(40) DEF NoMember, Begin, Go, At, Phases, Ops, CallOK
<1>8. CASE Cached(t) \/ Get(t)
  <2>1. CASE Cached(t)
    <3>1. CallOK(t)'
      BY <2>1 DEF Cached, Go, At, CallOK
    <3> QED
      BY <2>1, <3>1, QuietStep DEF Cached, Go, At, Phases
  <2>2. CASE Get(t)
    <3>1. CallOK(t)'
      BY <2>2 DEF Get, Uncached, Go, At, CallOK
    <3> QED
      BY <2>2, <3>1, QuietStep DEF Get, Uncached, Go, At, Phases
  <2> QED
    BY <1>8, <2>1, <2>2
<1>9. CASE GetFails(t)
  BY <1>9, QuietStep DEF GetFails, Uncached, Go, At, Phases, CallOK
<1>10. CASE OpenSkill(t)
  <2> USE <1>10 DEF OpenSkill, Open, Go, At
  <2>1. CatalogTypeOK'
    BY DEF Phases, Files, CallOK
  <2>2. ASSUME NEW u \in Threads PROVE CallOK(u)'
    BY <2>2 DEF CallOK
  <2>3. Writing(t)' = {name[t]} /\ Writing(t) = {} /\ \A u \in Threads \ {t} : Writing(u)' = Writing(u)
    BY DEF Writing
  <2>4. PartsHaveWriters'
    BY <2>3 DEF PartsHaveWriters
  <2> QED
    BY <2>1, <2>2, <2>4
<1>11. CASE FillSkill(t)
  <2> USE <1>11 DEF FillSkill, Fill, Go, At
  <2>1. CatalogTypeOK' /\ name[t] \in Files
    BY DEF Phases, Files, CallOK
  <2>2. ASSUME NEW u \in Threads PROVE CallOK(u)'
    BY <2>2 DEF CallOK
  <2>3. Writing(t) = {name[t]} /\ \A u \in Threads \ {t} : Writing(u)' = Writing(u)
    BY DEF Writing
  <2>4. PartsHaveWriters'
    BY <2>1, <2>3 DEF PartsHaveWriters
  <2> QED
    BY <2>1, <2>2, <2>4
<1>12. CASE StartSearch(t) \/ Boot(t)
  <2>1. CASE StartSearch(t)
    BY <2>1, UnaskedIsName, QuietStep DEF StartSearch, Begin, Go, At, Phases, Ops, CallOK
  <2>2. CASE Boot(t)
    BY <2>2, UnaskedIsName, QuietStep DEF Boot, Begin, Go, At, Phases, Ops, CallOK
  <2> QED
    BY <1>12, <2>1, <2>2
<1>13. ASSUME NEW n \in Names, StartFetch(t, n) PROVE CatalogInv'
  BY <1>13, QuietStep DEF StartFetch, Begin, Go, At, Phases, Ops, CallOK
<1>14. CASE (At(t, "answered") \/ At(t, "raised")) /\ Return(t)
  BY <1>14, UnaskedIsName, QuietStep DEF Return, Begin, Go, At, Phases, Ops, CallOK
<1> QED
  BY <1>1, <1>2, <1>3, <1>4, <1>5, <1>6, <1>7, <1>8, <1>9, <1>10, <1>11, <1>12, <1>13, <1>14
     DEF CatalogMove, CatalogStep

LEMMA DieKeeps == CatalogInv /\ Die => CatalogInv'
<1> SUFFICES ASSUME CatalogInv, Die PROVE CatalogInv'
  OBVIOUS
<1> USE DEF CatalogInv, CatalogTypeOK, Die
<1>1. \A t \in Threads : Writing(t) \subseteq Files
  BY DEF Writing, Files, At, CallOK
<1>2. CatalogTypeOK'
  <2>1. torn' \subseteq Files
    BY <1>1
  <2>2. crashes' \in 0..MaxCrashes
    BY CatalogAssumption
  <2> QED
    BY <2>1, <2>2, UnaskedIsName DEF Phases, Ops
<1>3. ASSUME NEW t \in Threads PROVE CallOK(t)'
  BY <1>3 DEF CallOK
<1>4. PartsHaveWriters'
  BY DEF PartsHaveWriters
<1> QED
  BY <1>2, <1>3, <1>4

-----------------------------------------------------------------------------
(***************************************************************************)
(* ToolLoop.  A turn is sent back when nothing was searched or fetched,    *)
(* and each time takes a round.  If the provider honours tool_choice, the  *)
(* next reply consists of searches, and the round is over when all of them *)
(* have returned.                                                          *)
(***************************************************************************)
Search == "search_skills_catalog"

\* The provider honours tool_choice.
Obeyed(t) ==
    /\ rewinds[t] <= 1
    /\ rewinds[t] = 1 /\ place[t] \in {"call", "wait"} =>
           Search \in called[t] \/ \A i \in DOMAIN calls[t] : calls[t][i] = Search
    /\ rewinds[t] = 1 /\ place[t] = "ask" /\ ~force[t] => Search \in called[t]

TurnOK(t) ==
    /\ place[t] \in {"idle", "before"} => rewinds[t] = 0
    /\ place[t] \in {"call", "wait"} => step[t] < MaxIter /\ calls[t] # <<>>
    /\ place[t] = "ask" /\ called[t] # {} => step[t] > 0
    /\ force[t] => place[t] = "ask" /\ step[t] < MaxIter /\ Search \notin called[t] /\ ~fetched[t]
    /\ rewinds[t] > 0 => rewinds[t] < step[t]
    /\ use[t].honours => Obeyed(t)

LoopInv == LoopTypeOK /\ \A t \in Threads : TurnOK(t)

\* A turn begins or ends.
LEMMA FreshKeeps ==
    ASSUME LoopInv, NEW t \in Threads, NEW where \in {"idle", "ask"}, Move(t, where), NoLocals(t)
    PROVE  LoopInv'
<1> USE DEF LoopInv, LoopTypeOK, Move, NoLocals
<1>1. LoopTypeOK'
  BY LoopAssumption DEF Places
<1>2. ASSUME NEW u \in Threads PROVE TurnOK(u)'
  <2>1. CASE u = t
    BY <2>1 DEF TurnOK, Obeyed
  <2>2. CASE u # t
    BY <2>2 DEF TurnOK, Obeyed
  <2> QED
    BY <2>1, <2>2
<1> QED
  BY <1>1, <1>2

\* What is left of a reply when its first call is done.
LEMMA TailOfReply ==
    ASSUME NEW S, NEW s \in Seq(S), s # <<>>
    PROVE  Tail(s) \in Seq(S) /\ (Len(s) # 1 => Tail(s) # <<>>)
<1>1. Tail(s) \in Seq(S) /\ Len(Tail(s)) = Len(s) - 1
  BY HeadTailProperties
<1>2. Len(s) \in Nat /\ Len(s) # 0 /\ (Tail(s) = <<>> => Len(Tail(s)) = 0)
  BY EmptySeq, LenProperties
<1> QED
  BY <1>1, <1>2

\* A call returns.
LEMMA ReturnsKeep ==
    ASSUME LoopInv, NEW t \in Threads, Calling(t), Returns(t)
    PROVE  LoopInv'
<1> USE DEF LoopInv, LoopTypeOK, Returns, Move, Calling, In
<1>1. calls[t] \in Seq(Tools) /\ calls[t] # <<>> /\ step[t] < MaxIter /\ ~force[t]
  BY DEF TurnOK
<1>2. Tail(calls[t]) \in Seq(Tools) /\ (Len(calls[t]) # 1 => Tail(calls[t]) # <<>>)
  BY <1>1, TailOfReply
<1>3. step[t] + 1 \in 0..MaxIter
  BY <1>1, LoopAssumption
<1>4. LoopTypeOK'
  BY <1>2, <1>3 DEF Places
<1>5. step'[t] \in {step[t], step[t] + 1} /\ (place'[t] = "ask" => step'[t] = step[t] + 1)
  BY DEF Places
<1>6. ASSUME use[t].honours PROVE Obeyed(t)'
  <2>1. Obeyed(t)
    BY <1>6 DEF TurnOK
  <2>2. CASE Search \in called[t]
    BY <1>1, <2>1, <2>2 DEF Obeyed
  <2>3. CASE rewinds[t] = 1 /\ Search \notin called[t]
    <3>1. Tool(t) = Search
      BY <1>1, <2>1, <2>3 DEF Obeyed, Tool
    <3>2. Search \in called'[t]
      BY <3>1 DEF Search, Required
    <3> QED
      BY <2>1, <3>2 DEF Obeyed
  <2>4. CASE rewinds[t] # 1
    BY <2>1, <2>4 DEF Obeyed
  <2> QED
    BY <2>2, <2>3, <2>4
<1>7. TurnOK(t)'
  BY <1>1, <1>2, <1>3, <1>5, <1>6, LoopAssumption DEF TurnOK
<1>8. ASSUME NEW u \in Threads \ {t} PROVE TurnOK(u)'
  BY <1>8 DEF TurnOK, Obeyed
<1> QED
  BY <1>4, <1>7, <1>8

LEMMA LoopStepKeeps ==
    ASSUME LoopInv, NEW t \in Threads, LoopStep(t)
    PROVE  LoopInv'
<1> USE DEF LoopInv, LoopTypeOK
<1>1. CASE Rewind(t)
  <2> USE <1>1 DEF Rewind, Asking, SkippedSearch, In
  <2>1. LoopTypeOK'
    BY LoopAssumption
  <2>2. step[t] > 0 /\ step[t] < MaxIter - 1 /\ Search \notin called[t]
    BY DEF TurnOK, Search
  <2>3. use[t].honours => rewinds[t] = 0
    BY <2>2 DEF TurnOK, Obeyed, Forced
  <2>4. /\ place[t] = "ask" /\ step'[t] = step[t] + 1 /\ rewinds'[t] = rewinds[t] + 1
        /\ force'[t] /\ UNCHANGED <<use, place, called, fetched>>
    OBVIOUS
  <2>5. TurnOK(t)'
    BY <2>2, <2>3, <2>4, LoopAssumption DEF TurnOK, Obeyed
  <2>6. ASSUME NEW u \in Threads \ {t} PROVE TurnOK(u)'
    BY <2>6 DEF TurnOK, Obeyed
  <2> QED
    BY <2>1, <2>5, <2>6
<1>2. CASE CallTools(t)
  <2> USE <1>2 DEF CallTools, Asking, In, Move
  <2>1. PICK reply \in use[t].replies :
            /\ Forced(t) => \A i \in DOMAIN reply : reply[i] = Search
            /\ calls' = [calls EXCEPT ![t] = reply]
    BY DEF Search
  <2>2. reply \in Seq(Tools) \ {<<>>}
    BY <2>1, LoopAssumption
  <2>3. LoopTypeOK'
    BY <2>1, <2>2 DEF Places
  <2>4. step[t] < MaxIter
    BY LoopAssumption
  <2>5. /\ place'[t] = "call" /\ calls'[t] = reply /\ ~force'[t]
        /\ UNCHANGED <<use, step, called, fetched, rewinds>>
    BY <2>1
  <2>6. ASSUME use[t].honours PROVE Obeyed(t)'
    BY <2>1, <2>5, <2>6 DEF TurnOK, Obeyed, Forced
  <2>7. TurnOK(t)'
    BY <2>2, <2>4, <2>5, <2>6 DEF TurnOK
  <2>8. ASSUME NEW u \in Threads \ {t} PROVE TurnOK(u)'
    BY <2>1, <2>8 DEF TurnOK, Obeyed
  <2> QED
    BY <2>3, <2>7, <2>8
<1>3. CASE Answer(t) \/ AskRaises(t) \/ Exhausted(t) \/ CallRaises(t) \/ ExternalRaises(t)
  BY <1>3, FreshKeeps DEF Answer, AskRaises, Exhausted, CallRaises, ExternalRaises, EndTurn
<1>4. CASE CallLocal(t) \/ ExternalReturns(t)
  BY <1>4, ReturnsKeep DEF CallLocal, ExternalReturns, Calling
<1>5. CASE CallExternal(t)
  <2> USE <1>5 DEF CallExternal, Move, In
  <2>1. LoopTypeOK'
    BY DEF Places
  <2>2. ASSUME NEW u \in Threads PROVE TurnOK(u)'
    BY <2>2 DEF TurnOK, Obeyed
  <2> QED
    BY <2>1, <2>2
<1>6. CASE ExternalStep(t)
  BY <1>6 DEF ExternalStep, loopVars, TurnOK, Obeyed
<1> QED
  BY <1>1, <1>2, <1>3, <1>4, <1>5, <1>6 DEF LoopStep

LEMMA LoopNext == LoopInv /\ [Next]_vars => LoopInv'
<1> SUFFICES ASSUME LoopInv, [Next]_vars PROVE LoopInv'
  OBVIOUS
<1>1. ASSUME UNCHANGED loopVars PROVE LoopInv'
  BY <1>1 DEF LoopInv, LoopTypeOK, TurnOK, Obeyed, loopVars
<1>2. ASSUME NEW t \in Threads, StartChat(t) PROVE LoopInv'
  BY <1>2, FreshKeeps DEF StartChat, StartLoop
<1>3. ASSUME NEW t \in Threads, StartReview(t) PROVE LoopInv'
  <2> USE <1>3 DEF StartReview, Move, Resting, In, LoopInv, LoopTypeOK
  <2>1. LoopTypeOK'
    BY DEF Places
  <2>2. ASSUME NEW u \in Threads PROVE TurnOK(u)'
    BY <2>2 DEF TurnOK, Obeyed
  <2> QED
    BY <2>1, <2>2
<1>4. ASSUME NEW t \in Threads, Progress(t) PROVE LoopInv'
  <2>1. CASE LoopStep(t)
    BY <2>1, LoopStepKeeps
  <2>2. CASE Detect(t)
    BY <2>2, <1>1 DEF Detect, toolVars
  <2>3. CASE FilesRead(t) \/ ReviewStops(t)
    BY <2>3, FreshKeeps DEF FilesRead, ReviewStops, StartLoop, EndTurn
  <2> QED
    BY <1>4, <2>1, <2>2, <2>3 DEF Progress
<1>5. ASSUME NEW t \in Threads, CloseLoop(t) \/ CloseReview(t) PROVE LoopInv'
  BY <1>5, FreshKeeps DEF CloseLoop, CloseReview, Close, EndTurn
<1>6. CASE Crash
  BY <1>6, LoopAssumption DEF Crash, ResetLoops, LoopInv, LoopTypeOK, TurnOK, Obeyed, Places
<1>7. ASSUME NEW t \in Threads, BootStep(t) PROVE LoopInv'
  BY <1>1, <1>7 DEF BootStep
<1>8. CASE UNCHANGED vars
  BY <1>1, <1>8 DEF vars, toolVars
<1> QED
  BY <1>2, <1>3, <1>4, <1>5, <1>6, <1>7, <1>8 DEF Next

LEMMA LoopStarts == Init => LoopInv
BY LoopAssumption DEF Init, LoopInit, LoopInv, LoopTypeOK, TurnOK, Obeyed, Places

\* For any number of rounds and whatever the model replies: a turn is sent back only for
\* a search it has not made, each time at the cost of a round, and if the provider honours
\* tool_choice only once and has searched before anything else comes of it.
THEOREM Searched == Spec => []SentBackToSearch
<1>1. LoopInv => SentBackToSearch
  BY DEF LoopInv, LoopTypeOK, TurnOK, Obeyed, SentBackToSearch, Search, In
<1> QED
  BY <1>1, LoopStarts, LoopNext, PTL DEF Spec

-----------------------------------------------------------------------------
(***************************************************************************)
(* The catalog under the tabs.                                             *)
(***************************************************************************)
LEMMA CatalogNext == LoopInv /\ CatalogInv /\ [Next]_vars => CatalogInv'
<1> SUFFICES ASSUME LoopInv, CatalogInv, [Next]_vars PROVE CatalogInv'
  OBVIOUS
<1>1. ASSUME UNCHANGED catalogVars PROVE CatalogInv'
  BY <1>1 DEF catalogVars, CatalogInv, CatalogTypeOK, CallOK, PartsHaveWriters, Writing, At
<1>2. ASSUME NEW t \in Threads, LoopStep(t) PROVE CatalogInv'
  <2>1. CASE CallExternal(t)
    <3>1. use[t].names \subseteq Names
      BY LoopAssumption DEF LoopInv, LoopTypeOK
    <3> QED
      BY <2>1, <3>1, MoveKeeps DEF CallExternal, CatalogMove
  <2>2. CASE ExternalReturns(t) \/ ExternalRaises(t)
    BY <2>2, MoveKeeps DEF ExternalReturns, ExternalRaises, CatalogMove
  <2>3. CASE ExternalStep(t)
    BY <2>3, MoveKeeps DEF ExternalStep, CatalogMove
  <2> QED
    BY <1>1, <1>2, <2>1, <2>2, <2>3
       DEF LoopStep, Rewind, Answer, CallTools, AskRaises, Exhausted, CallLocal, CallRaises
<1>3. ASSUME NEW t \in Threads, BootStep(t) PROVE CatalogInv'
  BY <1>3, MoveKeeps DEF BootStep, CatalogMove
<1>4. CASE Crash
  BY <1>4, DieKeeps DEF Crash
<1>5. ASSUME NEW t \in Threads,
             \/ StartChat(t) \/ StartReview(t) \/ CloseLoop(t) \/ CloseReview(t)
             \/ Detect(t) \/ FilesRead(t) \/ ReviewStops(t)
      PROVE  CatalogInv'
  BY <1>1, <1>5 DEF StartChat, StartReview, CloseLoop, Close, CloseReview, Detect, FilesRead,
                    ReviewStops, toolVars
<1>6. CASE UNCHANGED vars
  BY <1>1, <1>6 DEF vars, toolVars
<1> QED
  BY <1>2, <1>3, <1>4, <1>5, <1>6 DEF Next, Progress

LEMMA CatalogStarts == Init => CatalogInv
<1> SUFFICES ASSUME Init PROVE CatalogInv
  OBVIOUS
<1> USE DEF Init, CatalogInit
<1>1. CatalogTypeOK
  <2>1. up \in BOOLEAN /\ index \in {{}, External}
    BY Zenon
  <2>2. crashes \in 0..MaxCrashes /\ torn \subseteq Files
    BY CatalogAssumption, SMT
  <2>3. file \in [Files -> {"none", "part", "whole"}] /\ spoiled \in [Threads -> BOOLEAN]
    OBVIOUS
  <2>4. doing \in [Threads -> Phases] /\ op \in [Threads -> Ops]
    BY DEF Phases, Ops
  <2>5. name \in [Threads -> Names] /\ hits \in [Threads -> SUBSET External]
    BY UnaskedIsName
  <2> QED
    BY <2>1, <2>2, <2>3, <2>4, <2>5 DEF CatalogTypeOK
<1>2. ASSUME NEW t \in Threads PROVE CallOK(t)
  BY DEF CallOK, At
<1>3. PartsHaveWriters
  BY DEF PartsHaveWriters
<1> QED
  BY <1>1, <1>2, <1>3 DEF CatalogInv

LEMMA CatalogHolds == Spec => [](LoopInv /\ CatalogInv)
BY LoopStarts, CatalogStarts, LoopNext, CatalogNext, PTL DEF Spec

\* A file of a skill or of the index that is cut off is being written or was torn by a
\* crash, for any number of threads.
THEOREM PartsWritten == Spec => []PartsHaveWriters
<1>1. CatalogInv => PartsHaveWriters
  BY DEF CatalogInv
<1> QED
  BY <1>1, CatalogHolds, PTL

\* What is cut from the sorted lists of the preferred matches and the others is a first
\* page of them.
LEMMA CutIsFirst ==
    ASSUME NEW S \in SUBSET External, NEW T \in SUBSET (External \ S)
    PROVE  FirstPage(Cut(S, T, Limit), S, T)
<1> DEFINE P == S \cup T
           B == [i \in P |-> IF i \in S THEN Earlier(i, S) ELSE S \cup Earlier(i, T)]
           first == {i \in P : Cardinality(B[i]) < Limit}
<1>1. IsFiniteSet(S) /\ IsFiniteSet(T) /\ IsFiniteSet(P) /\ Limit \in Nat
  BY CatalogAssumption, FS_Subset
<1>2. Position \in [External -> Nat] /\ \A m, n \in External : Position[m] = Position[n] => m = n
  BY CatalogAssumption
<1>3. Orders(B, P)
  BY <1>2 DEF Orders, Earlier
<1>4. ASSUME NEW i \in T
      PROVE  Cardinality(B[i]) = Cardinality(S) + Cardinality(Earlier(i, T))
  <2>1. Earlier(i, T) \in SUBSET T
    BY DEF Earlier
  <2>2. IsFiniteSet(Earlier(i, T)) /\ S \cap Earlier(i, T) = {}
    BY <1>1, <2>1, FS_Subset
  <2>3. Cardinality(S) \in Nat /\ Cardinality(Earlier(i, T)) \in Nat
    BY <1>1, <2>2, FS_CardinalityType
  <2>4. i \in P /\ i \notin S
    OBVIOUS
  <2>5. B[i] = S \cup Earlier(i, T)
    BY <2>4
  <2>6. Cardinality(S \cup Earlier(i, T)) =
            Cardinality(S) + Cardinality(Earlier(i, T)) - Cardinality(S \cap Earlier(i, T))
    BY <1>1, <2>2, FS_Union, Zenon
  <2>7. Cardinality(S \cap Earlier(i, T)) = 0
    BY <2>2, FS_EmptySet
  <2> HIDE DEF B
  <2> QED
    BY <2>3, <2>5, <2>6, <2>7
<1>5. Cut(S, T, Limit) = first
  <2>1. \A i \in S : B[i] = Earlier(i, S)
    OBVIOUS
  <2> HIDE DEF B
  <2>2. \A i \in S : i \in first <=> Cardinality(Earlier(i, S)) < Limit
    BY <2>1
  <2>3. \A i \in T : i \in first <=> Cardinality(S) + Cardinality(Earlier(i, T)) < Limit
    BY <1>4
  <2>4. first \subseteq S \cup T
    OBVIOUS
  <2> HIDE DEF first
  <2> QED
    BY <2>2, <2>3, <2>4 DEF Cut
<1>6. Cardinality(first) <= Limit /\ (first # P => Cardinality(first) = Limit)
  <2> HIDE DEF B, P
  <2> QED
    BY <1>1, <1>3, FirstCount
<1>7. ASSUME NEW n \in P \ first, NEW m \in first
      PROVE  \/ m \in S /\ n \notin S
             \/ (m \in S <=> n \in S) /\ Position[m] < Position[n]
  <2>1. Cardinality(B[m]) < Cardinality(B[n])
    <3>1. Cardinality(B[m]) \in 0..Cardinality(P) - 1 /\ Cardinality(B[n]) \in 0..Cardinality(P) - 1
      <4> HIDE DEF B
      <4> QED
        BY <1>1, <1>3, RankOrders
    <3> QED
      BY <1>1, <3>1, FS_CardinalityType
  <2>2. m \in B[n]
    <3> HIDE DEF B
    <3> QED
      BY <1>1, <1>3, <2>1, RankOrders
  <2> QED
    BY <2>2 DEF Earlier
<1> QED
  <2>1. first \subseteq P
    OBVIOUS
  <2> HIDE DEF first
  <2>2. P = S \cup T
    OBVIOUS
  <2> HIDE DEF P
  <2>3. P \ first # {} => Cardinality(first) = Limit
    BY <1>6, <2>1
  <2> QED
    BY <1>5, <1>6, <1>7, <2>1, <2>2, <2>3 DEF FirstPage

\* A search that no failed load has disturbed finds every match, or as many of the best
\* as the limit allows, however many threads load the index at once and for any catalog
\* and limit.
THEOREM SearchComplete == Spec => []SearchFindsBest
<1>1. FirstPage(Cut(Prefixed, Inside, Limit), Prefixed, Inside)
  BY CutIsFirst, CatalogAssumption
<1>2. FirstPage(Cut(External, {}, Limit), External, {})
  BY CutIsFirst
<1>3. CatalogInv => SearchFindsBest
  BY <1>1, <1>2 DEF CatalogInv, CallOK, SearchFindsBest, At
<1> QED
  BY <1>3, CatalogHolds, PTL

-----------------------------------------------------------------------------
(***************************************************************************)
(* StackDetect.  The major version kept of a framework is the highest of   *)
(* those asked for.                                                        *)
(***************************************************************************)
HighestKept(t) ==
    /\ majors[t] = Absent <=> asked[t] = {}
    /\ asked[t] # {} => majors[t] \in asked[t]
    /\ \A v \in asked[t] : v <= majors[t]

StackInv ==
    /\ StackTypeOK
    /\ \A t \in Techs : HighestKept(t)
    /\ stage = "known" => suggested = {t \in frameworks : Fits(t)}

LEMMA MergedVersion ==
    ASSUME NEW package \in Packages, NEW t \in Techs
    PROVE  Merged(package, t) \in Versions
<1> DEFINE naming == {n \in DOMAIN Sections : package[t][n] # Absent}
           Latest(n) == n \in naming /\ \A m \in naming : m <= n
<1>1. DOMAIN Sections = 1..3 /\ package[t] \in [1..3 -> Versions]
  BY StackAssumption DEF Sections, Content
<1>2. naming = {} \/ \E n \in naming : Latest(n)
  BY <1>1
<1>3. CASE naming = {}
  BY <1>3 DEF Merged, Versions
<1>4. CASE \E n \in naming : Latest(n)
  <2>1. (CHOOSE n \in naming : \A m \in naming : m <= n) \in naming
    BY <1>4
  <2> QED
    BY <1>1, <1>4, <2>1 DEF Merged
<1> QED
  BY <1>2, <1>3, <1>4

LEMMA DetectKeeps == StackInv /\ DetectStep => StackInv'
<1> SUFFICES ASSUME StackInv, DetectStep PROVE StackInv'
  OBVIOUS
<1> USE DEF StackInv, StackTypeOK, Stages
<1>1. CASE ReadTree
  BY <1>1, StackAssumption DEF ReadTree, HighestKept
<1>2. CASE ReadPackage
  <2> USE <1>2 DEF ReadPackage
  <2>1. PICK package \in Packages :
            /\ frameworks' = frameworks \cup {t \in Techs : Merged(package, t) # Absent}
            /\ majors' = [t \in Techs |-> Highest(majors[t], Merged(package, t))]
            /\ asked' = [t \in Techs |->
                           asked[t] \cup ({Merged(package, t)} \ {Absent, Unparsed})]
    OBVIOUS
  <2>2. ASSUME NEW t \in Techs
        PROVE  /\ majors'[t] \in Nat \cup {Absent}
               /\ asked'[t] \in SUBSET Nat
               /\ HighestKept(t)'
    <3>1. Merged(package, t) \in Versions
      BY MergedVersion
    <3>2. majors'[t] = Highest(majors[t], Merged(package, t))
      BY <2>1
    <3>3. asked'[t] = asked[t] \cup ({Merged(package, t)} \ {Absent, Unparsed})
      BY <2>1
    <3> DEFINE v == Merged(package, t)
    <3> HIDE DEF v
    <3>4. CASE v >= 0
      BY <3>1, <3>2, <3>3, <3>4 DEF v, Versions, Absent, Unparsed, Highest, HighestKept
    <3>5. CASE ~(v >= 0)
      BY <3>1, <3>2, <3>3, <3>5 DEF v, Versions, Absent, Unparsed, Highest, HighestKept
    <3> QED
      BY <3>4, <3>5
  <2>3. majors' \in [Techs -> Nat \cup {Absent}] /\ asked' \in [Techs -> SUBSET Nat]
    BY <2>1, <2>2
  <2> QED
    BY <2>1, <2>2, <2>3
<1>3. CASE SkipPackage \/ ReadManifests
  BY <1>3 DEF SkipPackage, ReadManifests, HighestKept
<1>4. CASE SuggestSkills
  BY <1>4 DEF SuggestSkills, HighestKept, Fits
<1>5. CASE DetectRaises
  BY <1>5 DEF DetectRaises, NoStack, HighestKept
<1> QED
  BY <1>1, <1>2, <1>3, <1>4, <1>5 DEF DetectStep

LEMMA StackNext == StackInv /\ [Next]_vars => StackInv'
<1> SUFFICES ASSUME StackInv, [Next]_vars PROVE StackInv'
  OBVIOUS
<1>1. ASSUME UNCHANGED stackVars PROVE StackInv'
  BY <1>1 DEF stackVars, StackInv, StackTypeOK, HighestKept, Fits
<1>2. ASSUME NEW where \in Stages \ {"known"}, NoStack(where) PROVE StackInv'
  BY <1>2 DEF NoStack, StackInv, StackTypeOK, HighestKept
<1>3. ASSUME NEW t \in Threads, Detect(t) PROVE StackInv'
  BY <1>3, DetectKeeps DEF Detect
<1>4. ASSUME NEW t \in Threads,
             \/ StartReview(t) \/ FilesRead(t) \/ ReviewStops(t) \/ CloseReview(t) \/ Crash
      PROVE  StackInv'
  BY <1>2, <1>4 DEF StartReview, FilesRead, ReviewStops, CloseReview, Crash, StartDetect,
                    ForgetDetect, Stages
<1>5. ASSUME NEW t \in Threads,
             StartChat(t) \/ CloseLoop(t) \/ BootStep(t) \/ (LoopStep(t) /\ UNCHANGED stackVars)
      PROVE  StackInv'
  BY <1>1, <1>5 DEF StartChat, CloseLoop, BootStep
<1>6. CASE Crash
  BY <1>2, <1>6 DEF Crash, ForgetDetect, Stages
<1>7. CASE UNCHANGED vars
  BY <1>1, <1>7 DEF vars
<1> QED
  BY <1>3, <1>4, <1>5, <1>6, <1>7 DEF Next, Progress

LEMMA StackStarts == Init => StackInv
BY DEF Init, StackInit, StackInv, StackTypeOK, Stages, HighestKept

\* A skill is suggested exactly when some file asks for a version it is for, for any
\* frameworks, versions and number of files, in whatever order they are read.
THEOREM SuggestionFits == Spec => []SuggestedSkillFits
<1>1. StackInv => SuggestedSkillFits
  <2> SUFFICES ASSUME StackInv, stage = "known", NEW t \in frameworks
               PROVE  t \in suggested <=> \/ MinMajor[t] = NoMinimum
                                          \/ asked[t] = {}
                                          \/ \E v \in asked[t] : v >= MinMajor[t]
    BY DEF SuggestedSkillFits
  <2>1. t \in Techs /\ HighestKept(t) /\ MinMajor[t] \in Nat
    BY StackAssumption DEF StackInv, StackTypeOK
  <2>2. asked[t] \subseteq Nat /\ (t \in suggested <=> Fits(t))
    BY <2>1 DEF StackInv, StackTypeOK
  <2> QED
    BY <2>1, <2>2 DEF HighestKept, Fits, Absent
<1> QED
  BY <1>1, StackStarts, StackNext, PTL DEF Spec

\* The type invariant of the tabs and what they share.
THEOREM TypeCorrect == Spec => []TypeOK
<1>1. LoopInv /\ CatalogInv /\ StackInv => TypeOK
  BY DEF LoopInv, CatalogInv, StackInv, TypeOK
<1>2. Spec => []StackInv
  BY StackStarts, StackNext, PTL DEF Spec
<1> QED
  BY <1>1, <1>2, CatalogHolds, PTL

-----------------------------------------------------------------------------
(***************************************************************************)
(* Why turns end, apart from fairness.                                     *)
(***************************************************************************)
StageRank ==
    CASE stage = "tree" -> 4 [] stage = "packages" -> 3 [] stage = "skills" -> 2
      [] stage = "known" -> 1 [] OTHER -> 0

\* No fewer than the steps a tool call has left: a fetch may end in a search.
Rank == [call \in Ops |-> [phase \in Phases |->
    CASE phase = "check"        -> IF call = "fetch" THEN 20 ELSE 8
      [] phase = "load"         -> IF call = "fetch" THEN 19 ELSE 7
      [] phase = "download"     -> IF call = "fetch" THEN 18 ELSE 6
      [] phase = "open_index"   -> IF call = "fetch" THEN 17 ELSE 5
      [] phase = "fill_index"   -> IF call = "fetch" THEN 16 ELSE 4
      [] phase = "check_member" -> 15
      [] phase = "member"       -> 14
      [] phase = "cached"       -> 13
      [] phase = "open"         -> 12
      [] phase = "fill"         -> 11
      [] phase = "starts"       -> 3
      [] phase = "contains"     -> 2
      [] OTHER                  -> 0]]

CallRank(t) == Rank[op[t]][doing[t]]

LEMMA RankIs ==
    /\ Rank["fetch"]["check"] = 20
    /\ Rank["fetch"]["load"] = 19
    /\ Rank["fetch"]["download"] = 18
    /\ Rank["fetch"]["open_index"] = 17
    /\ Rank["fetch"]["fill_index"] = 16
    /\ \A call \in Ops \ {"fetch"} :
          /\ Rank[call]["check"] = 8
          /\ Rank[call]["load"] = 7
          /\ Rank[call]["download"] = 6
          /\ Rank[call]["open_index"] = 5
          /\ Rank[call]["fill_index"] = 4
    /\ \A call \in Ops :
          /\ Rank[call]["check_member"] = 15
          /\ Rank[call]["member"] = 14
          /\ Rank[call]["cached"] = 13
          /\ Rank[call]["open"] = 12
          /\ Rank[call]["fill"] = 11
          /\ Rank[call]["starts"] = 3
          /\ Rank[call]["contains"] = 2
          /\ Rank[call]["free"] = 0 /\ Rank[call]["answered"] = 0 /\ Rank[call]["raised"] = 0
BY DEF Rank, Ops, Phases

\* What a turn has before it, the slowest count first: detection, or the loop; rounds,
\* or what to detect; the reply, or files; calls; and the steps of one call.
Ahead(t) ==
    CASE place[t] = "before" -> <<2, StageRank, left, 0, 0>>
      [] place[t] = "ask"    -> <<1, MaxIter - step[t], 1, 0, 0>>
      [] place[t] = "call"   -> <<1, MaxIter - step[t], 0, Len(calls[t]), 21>>
      [] place[t] = "wait"   -> <<1, MaxIter - step[t], 0, Len(calls[t]), CallRank(t)>>
      [] OTHER               -> <<0, 0, 0, 0, 0>>

\* A tool call goes on, whatever another thread did to the index in between.
LEMMA CallCounts ==
    ASSUME CatalogTypeOK, NEW t \in Threads, CatalogStep(t)
    PROVE  CallRank(t)' < CallRank(t)
<1> DEFINE p == doing[t]
           q == doing'[t]
           c == op[t]
<1>1. doing \in [Threads -> Phases] /\ op \in [Threads -> Ops]
  BY DEF CatalogTypeOK
<1>2. CallRank(t) = Rank[c][p] /\ CallRank(t)' = Rank[op'[t]][q]
  BY DEF CallRank
<1>3. c \in Ops /\ "closest" \in Ops /\ (c = "fetch" \/ c \in Ops \ {"fetch"})
  BY <1>1 DEF Ops
<1> SUFFICES Rank[op'[t]][q] < Rank[c][p]
  BY <1>2, Zenon
<1>4. CASE Check(t)
  <2>1. p = "check" /\ q \in {"load", AfterLoad(t)} /\ op'[t] = c
    BY <1>1, <1>4 DEF Check, Go, At
  <2>2. AfterLoad(t) \in {"free", "starts"} \/ (c = "fetch" /\ AfterLoad(t) = "check_member")
    BY DEF AfterLoad
  <2> QED
    BY <1>3, <2>1, <2>2, RankIs
<1>5. CASE ReadCache(t) \/ DownloadFails(t) \/ FillIndex(t)
  <2>1. p \in {"load", "download", "fill_index"} /\ q = AfterLoad(t) /\ op'[t] = c
    BY <1>1, <1>5 DEF ReadCache, DownloadFails, FillIndex, Fill, Loaded, Go, At
  <2> QED
    BY <1>3, <2>1, RankIs DEF AfterLoad
<1>6. CASE MissCache(t) \/ Download(t) \/ OpenIndex(t)
  <2>1. /\ \/ p = "load" /\ q = "download"
           \/ p = "download" /\ q = "open_index"
           \/ p = "open_index" /\ q = "fill_index"
        /\ op'[t] = c
    BY <1>1, <1>6 DEF MissCache, Download, OpenIndex, Open, Go, At
  <2> QED
    BY <1>3, <2>1, RankIs
<1>7. CASE \/ ListAll(t) \/ ScanStarts(t) \/ ScanContains(t) \/ CheckMember(t) \/ Member(t)
           \/ Cached(t) \/ Get(t) \/ GetFails(t) \/ OpenSkill(t) \/ FillSkill(t)
  <2>1. /\ \/ p \in {"starts", "contains", "cached", "fill"} /\ q = "answered"
           \/ p = "starts" /\ q = "contains"
           \/ p = "check_member" /\ q \in {"cached", "member"}
           \/ p = "member" /\ q = "cached"
           \/ p = "cached" /\ q \in {"raised", "open"}
           \/ p = "open" /\ q = "fill"
        /\ op'[t] = c
    BY <1>1, <1>7 DEF ListAll, ScanStarts, ScanContains, CheckMember, Member, Cached, Get, GetFails,
       Uncached, OpenSkill, Open, FillSkill, Fill, Go, At
  <2> QED
    BY <1>3, <2>1, RankIs
<1>8. CASE NoMember(t)
  <2>1. p = "member" /\ q = "check" /\ op'[t] = "closest"
    BY <1>1, <1>8 DEF NoMember, Begin, Go, At
  <2> QED
    BY <1>3, <2>1, RankIs
<1> QED
  BY <1>4, <1>5, <1>6, <1>7, <1>8 DEF CatalogStep, Load

\* What a thread does to the catalog is not seen in the calls of the others.
LEMMA OthersCalls ==
    ASSUME CatalogTypeOK, NEW t \in Threads, NEW u \in Threads \ {t}, CatalogMove(u)
    PROVE  doing'[t] = doing[t] /\ op'[t] = op[t]
<1>1. doing \in [Threads -> Phases] /\ op \in [Threads -> Ops]
  BY DEF CatalogTypeOK
<1>2. ASSUME NEW phase, Go(u, phase) PROVE doing'[t] = doing[t]
  BY <1>1, <1>2 DEF Go
<1>3. ASSUME NEW call, NEW n, Begin(u, call, n) PROVE op'[t] = op[t]
  BY <1>1, <1>3 DEF Begin
<1>4. CASE CatalogStep(u)
  <2>1. \E phase : Go(u, phase)
    BY <1>4 DEF CatalogStep, Load, Check, ReadCache, DownloadFails, FillIndex, MissCache, Download,
       OpenIndex, ListAll, ScanStarts, ScanContains, CheckMember, Member, NoMember, Cached, Get,
       GetFails, OpenSkill, FillSkill, Open, Loaded
  <2>2. op' = op \/ Begin(u, "closest", Unasked)
    BY <1>4 DEF CatalogStep, Load, Check, ReadCache, DownloadFails, FillIndex, MissCache, Download,
       OpenIndex, ListAll, ScanStarts, ScanContains, CheckMember, Member, NoMember, Cached, Get,
       GetFails, OpenSkill, FillSkill, Open, Fill
  <2> QED
    BY <1>2, <1>3, <2>1, <2>2
<1>5. CASE StartSearch(u) \/ (\E n \in Names : StartFetch(u, n)) \/ Boot(u) \/ Return(u)
  <2>1. (\E phase : Go(u, phase)) /\ \E call, n : Begin(u, call, n)
    BY <1>5 DEF StartSearch, StartFetch, Boot, Return
  <2> QED
    BY <1>2, <1>3, <2>1
<1> QED
  BY <1>4, <1>5 DEF CatalogMove

LEMMA UpStays ==
    ASSUME CatalogTypeOK, NEW t \in Threads, CatalogMove(t), up
    PROVE  up'
BY DEF CatalogMove, CatalogStep, Load, Check, ReadCache, DownloadFails, FillIndex, MissCache, Download,
   OpenIndex, ListAll, ScanStarts, ScanContains, CheckMember, Member, NoMember, Cached, Get, GetFails,
   OpenSkill, FillSkill, Open, Fill, Loaded, StartSearch, StartFetch, Boot, Return

\* Turns need a process that is up, and only a review detects a stack.
TabsInv ==
    /\ ~up => \A t \in Threads : place[t] = "idle"
    /\ \A t \in Threads : place[t] = "before" => use[t].tab = "review"

LEMMA TabsNext == LoopInv /\ CatalogInv /\ TabsInv /\ [Next]_vars => TabsInv'
<1> SUFFICES ASSUME LoopInv, CatalogInv, TabsInv, [Next]_vars PROVE TabsInv'
  OBVIOUS
<1>1. CatalogTypeOK /\ place \in [Threads -> Places]
  BY DEF CatalogInv, LoopInv, LoopTypeOK
<1>2. ASSUME UNCHANGED <<place, use>>, up => up' PROVE TabsInv'
  BY <1>2 DEF TabsInv
<1>3. ASSUME NEW t \in Threads, NEW where \in {"idle", "ask", "call", "wait"}, Move(t, where),
             UNCHANGED use, up, up'
      PROVE  TabsInv'
  BY <1>1, <1>3 DEF TabsInv, Move
<1>4. ASSUME NEW t \in Threads, ~Resting(t) PROVE up
  BY <1>4 DEF TabsInv, Resting, In
<1>5. ASSUME NEW t \in Threads, LoopStep(t) PROVE TabsInv'
  <2>1. ~Resting(t) /\ up
    BY <1>4, <1>5 DEF LoopStep, Rewind, Answer, CallTools, AskRaises, Exhausted, CallLocal, CallExternal,
       CallRaises, ExternalReturns, ExternalRaises, ExternalStep, Asking, Resting, In
  <2>2. CASE Rewind(t) \/ ExternalStep(t)
    <3>1. UNCHANGED <<place, use>>
      BY <2>2 DEF Rewind, ExternalStep, loopVars
    <3>2. up'
      BY <1>1, <2>1, <2>2, UpStays DEF Rewind, ExternalStep, CatalogMove, catalogVars
    <3> QED
      BY <1>2, <3>1, <3>2
  <2>3. CASE CallExternal(t) \/ ExternalReturns(t) \/ ExternalRaises(t)
    <3>1. up'
      BY <2>1, <2>3 DEF CallExternal, ExternalReturns, ExternalRaises, StartSearch, StartFetch, Return
    <3>2. \E where \in {"idle", "ask", "call", "wait"} : Move(t, where) /\ UNCHANGED use
      BY <2>3 DEF CallExternal, ExternalReturns, ExternalRaises, Returns, EndTurn, NoLocals
    <3> QED
      BY <1>3, <2>1, <3>1, <3>2
  <2>4. CASE Answer(t) \/ CallTools(t) \/ AskRaises(t) \/ Exhausted(t) \/ CallLocal(t) \/ CallRaises(t)
    <3>1. up'
      BY <2>1, <2>4 DEF Answer, CallTools, AskRaises, Exhausted, CallLocal, CallRaises, catalogVars
    <3>2. \E where \in {"idle", "ask", "call", "wait"} : Move(t, where) /\ UNCHANGED use
      BY <2>4 DEF Answer, CallTools, AskRaises, Exhausted, CallLocal, CallRaises, Returns, EndTurn, NoLocals
    <3> QED
      BY <1>3, <2>1, <3>1, <3>2
  <2> QED
    BY <1>5, <2>2, <2>3, <2>4 DEF LoopStep
<1>6. ASSUME NEW t \in Threads, StartChat(t) \/ FilesRead(t) \/ ReviewStops(t) \/ CloseLoop(t) \/ CloseReview(t)
      PROVE  TabsInv'
  <2>1. up
    BY <1>4, <1>6 DEF StartChat, FilesRead, ReviewStops, CloseLoop, Close, CloseReview, Resting, In
  <2>2. up' = up /\ \E where \in {"idle", "ask", "call", "wait"} : Move(t, where) /\ UNCHANGED use
    BY <1>6 DEF StartChat, FilesRead, ReviewStops, CloseLoop, Close, CloseReview, StartLoop, EndTurn, NoLocals,
       catalogVars
  <2> QED
    BY <1>3, <2>1, <2>2
<1>7. ASSUME NEW t \in Threads, StartReview(t) PROVE TabsInv'
  BY <1>1, <1>7 DEF StartReview, Move, TabsInv, catalogVars
<1>8. ASSUME NEW t \in Threads, Detect(t) PROVE TabsInv'
  BY <1>2, <1>8 DEF Detect, toolVars, loopVars, catalogVars
<1>9. ASSUME NEW t \in Threads, BootStep(t) PROVE TabsInv'
  BY <1>2, <1>9 DEF BootStep, loopVars
<1>10. CASE Crash
  BY <1>10 DEF Crash, ResetLoops, TabsInv
<1>11. CASE UNCHANGED vars
  BY <1>2, <1>11 DEF vars, toolVars, loopVars, catalogVars
<1> QED
  BY <1>5, <1>6, <1>7, <1>8, <1>9, <1>10, <1>11 DEF Next, Progress

\* What a turn has before it, place by place.
Foreseen(t) ==
    /\ Ahead(t) \in Tuples
    /\ place[t] = "idle"   => Ahead(t) = <<0, 0, 0, 0, 0>>
    /\ place[t] = "before" => Ahead(t) = <<2, StageRank, left, 0, 0>>
    /\ place[t] = "ask"    => Ahead(t) = <<1, MaxIter - step[t], 1, 0, 0>>
    /\ place[t] = "call"   => Ahead(t) = <<1, MaxIter - step[t], 0, Len(calls[t]), 21>>
    /\ place[t] = "wait"   => Ahead(t) = <<1, MaxIter - step[t], 0, Len(calls[t]), CallRank(t)>>

AllForeseen == \A t \in Threads : Foreseen(t)

LEMMA RankRange ==
    ASSUME NEW call \in Ops, NEW phase \in Phases
    PROVE  Rank[call][phase] \in 0..20
BY DEF Rank, Ops, Phases

LEMMA Foresight == LoopInv /\ CatalogInv /\ StackInv => AllForeseen
<1> SUFFICES ASSUME LoopInv, CatalogInv, StackInv, NEW t \in Threads PROVE Foreseen(t)
  BY DEF AllForeseen
<1>1. place[t] \in Places /\ step[t] \in 0..MaxIter /\ MaxIter \in Nat /\ Len(calls[t]) \in Nat
  <2>1. calls[t] \in Seq(Tools)
    BY DEF LoopInv, LoopTypeOK
  <2>2. place[t] \in Places /\ step[t] \in 0..MaxIter
    BY DEF LoopInv, LoopTypeOK
  <2> QED
    BY <2>1, <2>2, LoopAssumption
<1>2. CallRank(t) \in 0..20
  BY RankRange DEF CallRank, CatalogInv, CatalogTypeOK
<1>3. StageRank \in Nat /\ left \in Nat
  BY DEF StageRank, StackInv, StackTypeOK
<1>4. MaxIter - step[t] \in Nat
  BY <1>1
<1>5. Ahead(t) \in Tuples
  <2>1. CASE place[t] = "before"
    BY <1>3, <2>1 DEF Ahead, Tuples
  <2>2. CASE place[t] = "ask"
    BY <1>4, <2>2 DEF Ahead, Tuples
  <2>3. CASE place[t] = "call"
    BY <1>1, <1>4, <2>3 DEF Ahead, Tuples
  <2>4. CASE place[t] = "wait"
    <3>1. Ahead(t) = <<1, MaxIter - step[t], 0, Len(calls[t]), CallRank(t)>>
      BY <2>4 DEF Ahead
    <3>2. CallRank(t) \in Nat
      BY <1>2
    <3> QED
      BY <1>1, <1>4, <3>1, <3>2 DEF Tuples
  <2>5. CASE place[t] = "idle"
    BY <2>5 DEF Ahead, Tuples
  <2> QED
    BY <1>1, <2>1, <2>2, <2>3, <2>4, <2>5 DEF Places
<1> QED
  BY <1>5 DEF Foreseen, Ahead

\* The same of the next state, of which no lemma can be cited.
LEMMA NextForeseen ==
    ASSUME AllForeseen', NEW t \in Threads
    PROVE  /\ Ahead(t)' \in Tuples
           /\ place'[t] = "idle"   => Ahead(t)' = <<0, 0, 0, 0, 0>>
           /\ place'[t] = "before" => Ahead(t)' = <<2, StageRank', left', 0, 0>>
           /\ place'[t] = "ask"    => Ahead(t)' = <<1, MaxIter - step'[t], 1, 0, 0>>
           /\ place'[t] = "call"   => Ahead(t)' = <<1, MaxIter - step'[t], 0, Len(calls'[t]), 21>>
           /\ place'[t] = "wait"   => Ahead(t)' = <<1, MaxIter - step'[t], 0, Len(calls'[t]), CallRank(t)'>>
BY DEF AllForeseen, Foreseen

LEMMA TurnEnds ==
    ASSUME AllForeseen, AllForeseen', NEW t \in Threads, place[t] \in {"before", "ask", "call", "wait"},
           \/ place'[t] = "idle"
           \/ place[t] = "before" /\ place'[t] = "ask"
    PROVE  Less(Ahead(t)', Ahead(t))
<1> DEFINE a == Ahead(t)
           b == Ahead(t)'
<1>1. a \in Tuples /\ b \in Tuples
  BY NextForeseen DEF AllForeseen, Foreseen
<1>2. a[1] \in {1, 2} /\ (place[t] = "before" => a[1] = 2)
  <2>1. Foreseen(t)
    BY DEF AllForeseen
  <2> QED
    BY <2>1 DEF Foreseen
<1>3. b[1] = 0 \/ (place[t] = "before" /\ b[1] = 1)
  <2>1. CASE place'[t] = "idle"
    <3>1. b = <<0, 0, 0, 0, 0>>
      BY <2>1, NextForeseen
    <3> QED
      BY <3>1
  <2>2. CASE place'[t] = "ask" /\ place[t] = "before"
    <3>1. b = <<1, MaxIter - step'[t], 1, 0, 0>>
      BY <2>2, NextForeseen
    <3> QED
      BY <2>2, <3>1
  <2> QED
    BY <2>1, <2>2
<1> HIDE DEF a, b
<1>4. b[1] < a[1]
  BY <1>2, <1>3
<1>5. Less(b, a)
  BY <1>1, <1>4, LessAt
<1> QED
  BY <1>5 DEF a, b

\* A step of the turn itself.
LEMMA OwnCounts ==
    ASSUME LoopInv, CatalogInv, CatalogInv', StackInv, AllForeseen, AllForeseen', NEW t \in Threads,
           Progress(t) \/ CloseLoop(t) \/ CloseReview(t)
    PROVE  Less(Ahead(t)', Ahead(t))
<1> DEFINE a == Ahead(t)
           b == Ahead(t)'
           r == CallRank(t)
           q == CallRank(t)'
<1>1. a \in Tuples /\ b \in Tuples
  BY NextForeseen DEF AllForeseen, Foreseen
<1>2. /\ place[t] = "before" => a = <<2, StageRank, left, 0, 0>>
      /\ place[t] = "ask"    => a = <<1, MaxIter - step[t], 1, 0, 0>>
      /\ place[t] = "call"   => a = <<1, MaxIter - step[t], 0, Len(calls[t]), 21>>
      /\ place[t] = "wait"   => a = <<1, MaxIter - step[t], 0, Len(calls[t]), r>>
  BY Zenon DEF AllForeseen, Foreseen
<1>3. /\ place'[t] = "before" => b = <<2, StageRank', left', 0, 0>>
      /\ place'[t] = "ask"    => b = <<1, MaxIter - step'[t], 1, 0, 0>>
      /\ place'[t] = "call"   => b = <<1, MaxIter - step'[t], 0, Len(calls'[t]), 21>>
      /\ place'[t] = "wait"   => b = <<1, MaxIter - step'[t], 0, Len(calls'[t]), q>>
  BY NextForeseen, Zenon
<1>4. q \in 0..20
  <2>1. op'[t] \in Ops /\ doing'[t] \in Phases /\ q = Rank[op'[t]][doing'[t]]
    BY DEF CatalogInv, CatalogTypeOK, CallRank
  <2> HIDE DEF q
  <2> QED
    BY <2>1, RankRange
<1>5. CatalogStep(t) => q < r
  BY CallCounts DEF CatalogInv
<1>6. /\ place \in [Threads -> Places] /\ step \in [Threads -> 0..MaxIter] /\ MaxIter \in Nat
      /\ calls \in [Threads -> Seq(Tools)]
      /\ place[t] \in {"call", "wait"} => calls[t] # <<>> /\ step[t] < MaxIter
  BY LoopAssumption DEF LoopInv, LoopTypeOK, TurnOK
<1>7. ASSUME b[1] = a[1], b[2] < a[2] \/ (b[2] = a[2] /\ b[3] < a[3]) \/
             (b[2] = a[2] /\ b[3] = a[3] /\ (b[4] < a[4] \/ (b[4] = a[4] /\ b[5] < a[5])))
      PROVE  Less(b, a)
  <2> HIDE DEF a, b
  <2> QED
    BY <1>1, <1>7, LessAt
<1>8. CASE \/ Answer(t) \/ AskRaises(t) \/ Exhausted(t) \/ CallRaises(t) \/ ExternalRaises(t)
           \/ FilesRead(t) \/ ReviewStops(t) \/ CloseLoop(t) \/ CloseReview(t)
  <2>1. /\ place[t] \in {"before", "ask", "call", "wait"}
        /\ place'[t] = "idle" \/ (place[t] = "before" /\ place'[t] = "ask")
    BY <1>6, <1>8 DEF Answer, AskRaises, Exhausted, CallRaises, ExternalRaises, FilesRead, ReviewStops,
       CloseLoop, CloseReview, Close, EndTurn, StartLoop, Move, In, Asking
  <2> QED
    BY <2>1, TurnEnds
<1>9. CASE Rewind(t)
  <2>1. place[t] = "ask" /\ place'[t] = "ask" /\ step'[t] = step[t] + 1
    BY <1>6, <1>9 DEF Rewind, Asking, In
  <2>2. step[t] \in Nat
    BY <1>6
  <2> HIDE DEF a, b
  <2>3. b[1] = a[1] /\ b[2] < a[2]
    BY <1>2, <1>3, <1>6, <2>1, <2>2
  <2> QED
    BY <1>7, <2>3 DEF a, b
<1>10. CASE CallTools(t)
  <2>1. place[t] = "ask" /\ place'[t] = "call" /\ step'[t] = step[t]
    BY <1>6, <1>10 DEF CallTools, Asking, In, Move
  <2> HIDE DEF a, b
  <2>2. b[1] = a[1] /\ b[2] = a[2] /\ b[3] < a[3]
    BY <1>2, <1>3, <2>1
  <2> QED
    BY <1>7, <2>2 DEF a, b
<1>11. CASE CallLocal(t) \/ ExternalReturns(t)
  <2>1. place[t] \in {"call", "wait"} /\ Returns(t)
    BY <1>11 DEF CallLocal, ExternalReturns, In
  <2>2. calls[t] \in Seq(Tools) /\ calls[t] # <<>>
    BY <1>6, <2>1
  <2>3. Len(Tail(calls[t])) = Len(calls[t]) - 1 /\ Len(calls[t]) \in Nat
    BY <2>2, HeadTailProperties
  <2>4. CASE Len(calls[t]) = 1
    <3>1. place'[t] = "ask" /\ step'[t] = step[t] + 1 /\ step[t] \in Nat
      BY <1>6, <2>1, <2>4 DEF Returns, Move
    <3> HIDE DEF a, b
    <3>2. b[1] = a[1] /\ b[2] < a[2]
      BY <1>2, <1>3, <1>6, <2>1, <3>1
    <3> QED
      BY <1>7, <3>2 DEF a, b
  <2>5. CASE Len(calls[t]) # 1
    <3>1. place'[t] = "call" /\ step'[t] = step[t] /\ calls'[t] = Tail(calls[t])
      BY <1>6, <2>1, <2>5 DEF Returns, Move
    <3> HIDE DEF a, b
    <3>2. b[1] = a[1] /\ b[2] = a[2] /\ b[3] = a[3] /\ b[4] < a[4]
      BY <1>2, <1>3, <2>1, <2>3, <3>1
    <3> QED
      BY <1>7, <3>2 DEF a, b
  <2> QED
    BY <2>4, <2>5
<1>12. CASE CallExternal(t)
  <2>1. place[t] = "call" /\ place'[t] = "wait" /\ step'[t] = step[t] /\ calls'[t] = calls[t]
    BY <1>6, <1>12 DEF CallExternal, In, Move
  <2> HIDE DEF a, b, q
  <2>2. b[1] = a[1] /\ b[2] = a[2] /\ b[3] = a[3] /\ b[4] = a[4] /\ b[5] < a[5]
    BY <1>2, <1>3, <1>4, <2>1
  <2> QED
    BY <1>7, <2>2 DEF a, b
<1>13. CASE ExternalStep(t)
  <2>1. place[t] = "wait" /\ place'[t] = "wait" /\ step'[t] = step[t] /\ calls'[t] = calls[t] /\ CatalogStep(t)
    BY <1>13 DEF ExternalStep, In, loopVars
  <2>2. q < r
    BY <1>5, <2>1
  <2> HIDE DEF a, b, q, r
  <2>3. b[1] = a[1] /\ b[2] = a[2] /\ b[3] = a[3] /\ b[4] = a[4] /\ b[5] < a[5]
    BY <1>2, <1>3, <2>1, <2>2
  <2> QED
    BY <1>7, <2>3 DEF a, b
<1>14. CASE Detect(t)
  <2>1. place[t] = "before" /\ place'[t] = "before"
    BY <1>14 DEF Detect, In, toolVars, loopVars
  <2>2. left \in Nat
    BY DEF StackInv, StackTypeOK
  <2>3. StageRank' < StageRank \/ (StageRank' = StageRank /\ left' < left)
    <3>1. CASE ReadPackage \/ SkipPackage
      BY <2>2, <3>1 DEF ReadPackage, SkipPackage, StageRank
    <3>2. CASE ReadTree \/ ReadManifests \/ SuggestSkills \/ DetectRaises
      BY <3>2 DEF ReadTree, ReadManifests, SuggestSkills, DetectRaises, NoStack, StageRank
    <3> QED
      BY <1>14, <3>1, <3>2 DEF Detect, DetectStep
  <2> HIDE DEF a, b
  <2>4. b[1] = a[1] /\ (b[2] < a[2] \/ (b[2] = a[2] /\ b[3] < a[3]))
    BY <1>2, <1>3, <2>1, <2>3
  <2> QED
    BY <1>7, <2>4 DEF a, b
<1> QED
  BY <1>8, <1>9, <1>10, <1>11, <1>12, <1>13, <1>14 DEF Progress, LoopStep

\* A step of another turn.
LEMMA OthersStay ==
    ASSUME LoopInv, CatalogInv, TabsInv, NEW t \in Threads, ~Resting(t), NEW u \in Threads \ {t},
           StartChat(u) \/ StartReview(u) \/ Progress(u) \/ CloseLoop(u) \/ CloseReview(u)
    PROVE  Ahead(t)' = Ahead(t)
<1>1. /\ place \in [Threads -> Places] /\ step \in [Threads -> 0..MaxIter]
      /\ calls \in [Threads -> Seq(Tools)] /\ use \in Uses /\ CatalogTypeOK
  BY DEF LoopInv, LoopTypeOK, CatalogInv
<1>2. place'[t] = place[t] /\ step'[t] = step[t] /\ calls'[t] = calls[t]
  <2>1. ASSUME NEW where, Move(u, where) PROVE place'[t] = place[t]
    BY <1>1, <2>1 DEF Move
  <2>2. ASSUME NoLocals(u) PROVE step'[t] = step[t] /\ calls'[t] = calls[t]
    BY <1>1, <2>2 DEF NoLocals
  <2>3. CASE \/ StartChat(u) \/ FilesRead(u) \/ ReviewStops(u) \/ CloseLoop(u) \/ CloseReview(u)
             \/ Answer(u) \/ AskRaises(u) \/ Exhausted(u) \/ CallRaises(u) \/ ExternalRaises(u)
    BY <2>1, <2>2, <2>3 DEF StartChat, FilesRead, ReviewStops, CloseLoop, Close, CloseReview, Answer,
       AskRaises, Exhausted, CallRaises, ExternalRaises, StartLoop, EndTurn
  <2>4. CASE Rewind(u) \/ CallTools(u) \/ CallLocal(u) \/ ExternalReturns(u)
    BY <1>1, <2>4 DEF Rewind, CallTools, CallLocal, ExternalReturns, Returns, Move
  <2>5. CASE CallExternal(u) \/ StartReview(u)
    BY <2>1, <2>5 DEF CallExternal, StartReview
  <2>6. CASE ExternalStep(u) \/ Detect(u)
    BY <2>6 DEF ExternalStep, Detect, toolVars, loopVars
  <2> QED
    BY <2>3, <2>4, <2>5, <2>6 DEF Progress, LoopStep
<1>3. doing'[t] = doing[t] /\ op'[t] = op[t]
  <2>1. CASE UNCHANGED catalogVars
    BY <2>1 DEF catalogVars
  <2>2. CASE CallExternal(u) \/ ExternalReturns(u) \/ ExternalRaises(u) \/ ExternalStep(u)
    <3>1. use[u].names \subseteq Names
      BY <1>1, LoopAssumption
    <3>2. CatalogMove(u)
      BY <2>2, <3>1 DEF CallExternal, ExternalReturns, ExternalRaises, ExternalStep, CatalogMove
    <3> QED
      BY <1>1, <3>2, OthersCalls
  <2> QED
    BY <2>1, <2>2 DEF StartChat, StartReview, Progress, CloseLoop, Close, CloseReview, Detect, FilesRead,
       ReviewStops, LoopStep, Rewind, Answer, CallTools, AskRaises, Exhausted, CallLocal, CallRaises, toolVars
<1>4. place[t] = "before" => UNCHANGED stackVars
  <2>1. SUFFICES ASSUME place[t] = "before" PROVE UNCHANGED stackVars
    OBVIOUS
  <2>2. use[u].tab # "review"
    BY <1>1, <2>1, AssistantAssumption DEF TabsInv
  <2>3. place[u] # "before" /\ ~StartReview(u)
    BY <2>2 DEF TabsInv, StartReview
  <2> QED
    BY <2>3 DEF StartChat, Progress, CloseLoop, CloseReview, Detect, FilesRead, ReviewStops, In
<1>5. CallRank(t)' = CallRank(t)
  BY <1>3 DEF CallRank
<1>6. place[t] = "before" => StageRank' = StageRank /\ left' = left
  BY <1>4 DEF stackVars, StageRank
<1> QED
  BY <1>2, <1>5, <1>6, Zenon DEF Ahead

LEMMA TabsHold == Spec => [](LoopInv /\ CatalogInv /\ StackInv /\ TabsInv)
<1>1. Init => TabsInv
  BY DEF Init, LoopInit, TabsInv
<1>2. Spec => []StackInv
  BY StackStarts, StackNext, PTL DEF Spec
<1> QED
  BY <1>1, <1>2, CatalogHolds, TabsNext, PTL DEF Spec

\* Whatever the tabs do to each other and to the index they share, every step of a turn,
\* the browser's leaving and a crash included, lowers what the turn has before it, for
\* any number of tabs, rounds, tools and files; the other steps leave it as it is.  No
\* descent in tuples is endless (LeastTuple), so only a turn that is never scheduled
\* does not end.
THEOREM TurnsRunDown ==
    Spec => [][\A t \in Threads : ~Resting(t) =>
                  /\ Ahead(t) \in Tuples
                  /\ \/ Less(Ahead(t)', Ahead(t))
                     \/ Ahead(t)' = Ahead(t) /\ ~Progress(t)]_vars
<1> DEFINE Lowers(t) ==
             /\ Ahead(t) \in Tuples
             /\ \/ Less(Ahead(t)', Ahead(t))
                \/ Ahead(t)' = Ahead(t) /\ ~Progress(t)
           Inv == LoopInv /\ CatalogInv /\ StackInv /\ TabsInv /\ AllForeseen
<1>1. Inv /\ Inv' /\ [Next]_vars => [\A t \in Threads : ~Resting(t) => Lowers(t)]_vars
  <2> SUFFICES ASSUME Inv, Inv', Next, NEW t \in Threads, ~Resting(t) PROVE Lowers(t)
    OBVIOUS
  <2>1. Ahead(t) \in Tuples
    BY DEF AllForeseen, Foreseen
  <2>2. place[t] \in {"before", "ask", "call", "wait"} /\ up
    BY DEF LoopInv, LoopTypeOK, Places, Resting, In, TabsInv
  <2>3. CASE Progress(t) \/ CloseLoop(t) \/ CloseReview(t)
    BY <2>1, <2>3, OwnCounts
  <2>4. CASE Crash
    <3>1. place'[t] = "idle"
      BY <2>4 DEF Crash, ResetLoops
    <3> QED
      BY <2>1, <2>2, <3>1, TurnEnds
  <2>5. ASSUME NEW u \in Threads \ {t}, ~Progress(t),
               StartChat(u) \/ StartReview(u) \/ Progress(u) \/ CloseLoop(u) \/ CloseReview(u)
        PROVE  Lowers(t)
    BY <2>1, <2>5, OthersStay
  <2>6. ASSUME NEW u \in Threads PROVE ~BootStep(u) /\ ~StartChat(t) /\ ~StartReview(t)
    BY <2>2 DEF BootStep, StartChat, StartReview
  <2> QED
    BY <2>3, <2>4, <2>5, <2>6 DEF Next
<1>2. Spec => []Inv
  BY TabsHold, Foresight, PTL
<1> QED
  BY <1>1, <1>2, PTL DEF Spec
=============================================================================
