----------------------- MODULE ReportLifecycleProofs -----------------------
(***************************************************************************)
(* Proofs about Linkage and ReportLifecycle: for any units of C and C++,   *)
(* any number of records, objects and handlers, a program links and shares *)
(* one copy of the tables, starting the runtime again loses no record, and *)
(* the report of an instrumented main is complete and stays.               *)
(***************************************************************************)
EXTENDS ReportLifecycle, TLAPS

\* Handlers write reports with the copies the linker kept; checks of the
\* exception runtime register none.
Handler == {Destructor} \cup {Report(Definer(u, "print")) : u \in hooked}
HandlersReport ==
    /\ handlers \in Seq(Handler)
    /\ tool = "exceptions" => handlers \in Seq({Destructor})

\* All records are in the tables; where there are no tables there is no record,
\* which is why creating them loses nothing.  Only main creates the table of the
\* exception runtime.
AllKept ==
    /\ phase # "not linked"
    /\ \A u \in hooked : /\ kept[Table(u)] = made - lost
                         /\ ~tables[Table(u)] => made = lost
    /\ tool = "errors" => lost = 0
    /\ tool = "exceptions" /\ phase \in {"linking", "initializers"} =>
           \A u \in hooked : ~tables[Table(u)]

\* Whoever writes the report marks it as written, before exit at the earliest
\* in main's return; an instrumented main runs with tables.
Early == phase \in {"linking", "initializers", "main"}
Marked ==
    /\ Early => report = NoReport /\ \A u \in Unit : ~finalized[u]
    /\ tool = "errors" /\ report # NoReport => \E u \in hooked : finalized[Definer(u, "print")]
    /\ phase = "linking" => made = 0 /\ lost = 0
    /\ phase = "main" /\ MainHooked => \A u \in hooked : tables[Table(u)]

LInv == TypeOK /\ HandlersReport /\ AllKept /\ Marked
-----------------------------------------------------------------------------
(* The linker.                                                             *)

\* The kept definition of a name is one of a unit with hooks.
LEMMA DefinerHooked ==
    ASSUME NEW u \in hooked, NEW name
    PROVE  Definer(u, name) \in hooked
  <1>1. Symbol(u, name)[1] = name
    BY DEF Symbol
  <1>2. \E v \in hooked : Symbol(v, Symbol(u, name)[1]) = Symbol(u, name)
    BY <1>1
  <1> QED
    BY <1>2 DEF Definer, Kept

\* In C and in C++, the tables have the same symbol.
LEMMA OneTable ==
    ASSUME NEW u \in hooked, NEW v \in hooked
    PROVE  Table(u) = Table(v) /\ Table(u) \in hooked
  <1>1. Symbol(u, "tables") = Symbol(v, "tables")
    BY DEF Symbol, Functions
  <1> QED
    BY <1>1, DefinerHooked DEF Table, Definer

\* Units of one language share functions too.
LEMMA OneFunction ==
    ASSUME NEW u \in hooked, NEW v \in hooked, OneLanguage, NEW name
    PROVE  Definer(u, name) = Definer(v, name)
  <1>1. Symbol(u, name) = Symbol(v, name)
    BY DEF Symbol, OneLanguage
  <1> QED
    BY <1>1 DEF Definer

\* The constructors of both passes know every name of the runtimes.
LEMMA AllMerged ==
    ASSUME tool \in Tool
    PROVE  ~LinkFails
  <1>1. CASE tool = "errors"
    BY <1>1 DEF LinkFails, Strong, Functions, Globals, Merged, ErrorGlobals, ErrorFound,
                ErrorMerged, ErrorGlobalsMerged
  <1>2. CASE tool = "exceptions"
    BY <1>2 DEF LinkFails, Strong, Functions, Globals, Merged, ExceptionGlobals,
                ExceptionFound, ExceptionMerged, ExceptionGlobalsMerged
  <1> QED
    BY <1>1, <1>2 DEF Tool

\* The program does not change, nor what the linker has kept.
LEMMA SameProgram ==
    ASSUME UNCHANGED program
    PROVE  /\ \A u : Table(u)' = Table(u)
           /\ \A u : Definer(u, "print")' = Definer(u, "print")
           /\ Handler' = Handler /\ MainHooked' = MainHooked
  <1>1. hooked' = hooked /\ tool' = tool /\ main' = main
    BY DEF program
  <1>2. Functions' = Functions
    BY <1>1 DEF Functions
  <1>3. \A u, name : Symbol(u, name)' = Symbol(u, name)
    BY <1>2 DEF Symbol
  <1>4. \A s : Kept(s)' = Kept(s)
    BY <1>1, <1>2 DEF Kept, Symbol
  <1>5. \A u, name : Definer(u, name)' = Definer(u, name)
    BY <1>3, <1>4 DEF Definer
  <1>6. Handler' = Handler
    BY <1>1, <1>5 DEF Handler
  <1>7. MainHooked' = MainHooked
    BY <1>1, <1>2 DEF MainHooked, Defined
  <1> QED
    BY <1>5, <1>6, <1>7 DEF Table
-----------------------------------------------------------------------------
LEMMA LInit == Init => LInv
  <1> SUFFICES ASSUME Init
               PROVE  LInv
    OBVIOUS
  <1>1. handlers \in Seq(Handler) /\ handlers \in Seq({Destructor})
        /\ handlers \in Seq({Destructor} \cup {Report(u) : u \in hooked})
    BY DEF Init
  <1>2. TypeOK
    BY <1>1 DEF Init, TypeOK, Phase
  <1>3. HandlersReport
    BY <1>1 DEF HandlersReport
  <1>4. AllKept
    <2>1. ASSUME NEW u \in hooked
          PROVE  kept[Table(u)] = made - lost /\ (~tables[Table(u)] => made = lost)
      BY OneTable DEF Init
    <2>2. ASSUME NEW u \in hooked
          PROVE  ~tables[Table(u)]
      BY OneTable DEF Init
    <2> QED
      BY <2>1, <2>2 DEF Init, AllKept
  <1>5. Marked
    BY DEF Init, Marked
  <1> QED
    BY <1>2, <1>3, <1>4, <1>5 DEF LInv

\* A hook runs in a unit with hooks, and so does the copy the linker kept.
LEMMA HookRuns ==
    ASSUME TypeOK, NEW u \in Unit, Hook(u)
    PROVE  u \in hooked /\ Definer(u, "hook") \in hooked /\ hooked \subseteq Unit
  <1>1. Instrumented(u) # {}
    BY DEF Hook
  <1>2. u \in hooked
    BY <1>1 DEF Instrumented
  <1> QED
    BY <1>2, DefinerHooked DEF TypeOK

\* Registering the report puts one handler in front, or none.
LEMMA RegisterTyped ==
    ASSUME TypeOK, handlers \in Seq(Handler), NEW u \in hooked, Register(u)
    PROVE  /\ registered' \in [Unit -> BOOLEAN]
           /\ handlers' \in Seq(Handler)
  <1>1. CASE ~tables[Table(u)] /\ ~registered[u]
    <2>1. Report(Definer(u, "print")) \in Handler
      BY DEF Handler
    <2>2. <<Report(Definer(u, "print"))>> \in Seq(Handler)
      BY <2>1
    <2>3. <<Report(Definer(u, "print"))>> \o handlers \in Seq(Handler)
      BY <2>2
    <2>4. /\ registered' = [registered EXCEPT ![u] = TRUE]
          /\ handlers' = <<Report(Definer(u, "print"))>> \o handlers
      BY <1>1 DEF Register
    <2> QED
      BY <2>3, <2>4 DEF TypeOK
  <1>2. CASE ~(~tables[Table(u)] /\ ~registered[u])
    BY <1>2 DEF Register, TypeOK
  <1> QED
    BY <1>1, <1>2

\* Such handlers are of the kind the type says.
LEMMA HandlersTyped ==
    ASSUME NEW s \in Seq(Handler)
    PROVE  s \in Seq({Destructor} \cup {Report(u) : u \in hooked})
  <1>1. Handler \subseteq {Destructor} \cup {Report(u) : u \in hooked}
    BY DefinerHooked DEF Handler
  <1> QED
    BY <1>1

\* A step that leaves the program, the report and its marks alone, and creates
\* tables if anything, keeps the marks.
LEMMA MarksKept ==
    ASSUME LInv, UNCHANGED <<program, phase, report, finalized>>, phase # "linking",
           \A u \in hooked : tables[Table(u)] => tables'[Table(u)]
    PROVE  Marked'
  <1>1. /\ \A u : Table(u)' = Table(u)
        /\ \A u : Definer(u, "print")' = Definer(u, "print")
        /\ MainHooked' = MainHooked
    BY SameProgram
  <1>2. hooked' = hooked /\ tool' = tool
    BY DEF program
  <1>3. tool' = "errors" /\ report' # NoReport
            => \E u \in hooked' : finalized'[Definer(u, "print")']
    BY <1>1, <1>2 DEF LInv, Marked
  <1>4. phase' = "main" /\ MainHooked' => \A u \in hooked' : tables'[Table(u)']
    BY <1>1, <1>2 DEF LInv, Marked
  <1>5. Early' => report' = NoReport /\ \A u \in Unit : ~finalized'[u]
    BY DEF LInv, Marked, Early
  <1> QED
    BY <1>3, <1>4, <1>5 DEF Marked

\* What a hook of the error runtime does.
LEMMA ErrorHookStep ==
    ASSUME LInv, NEW u \in Unit, Hook(u), tool = "errors"
    PROVE  LInv'
  <1> DEFINE r == Definer(u, "hook")
             t == Table(r)
  <1>1. r \in hooked /\ hooked \subseteq Unit
    BY HookRuns DEF LInv
  <1>2. t \in Unit /\ \A v \in hooked : Table(v) = t
    BY <1>1, OneTable
  <1>3. /\ ErrorHook(r) /\ made' = made + 1 /\ phase # "linking"
        /\ UNCHANGED <<program, phase, objects, finalized, report>>
    BY DEF Hook
  <1>4. /\ tables' = [tables EXCEPT ![t] = TRUE]
        /\ kept' = [kept EXCEPT ![t] = (IF tables[t] THEN kept[t] ELSE 0) + 1]
        /\ Register(r) /\ lost' = lost
    BY <1>3 DEF ErrorHook
  <1> HIDE DEF r, t
  <1>5. hooked' = hooked /\ tool' = tool /\ main' = main /\ marked' = marked
    BY <1>3 DEF program
  <1>6. (\A v : Table(v)' = Table(v)) /\ Handler' = Handler
    BY <1>3, SameProgram
  <1>7. registered' \in [Unit -> BOOLEAN] /\ handlers' \in Seq(Handler)
    BY <1>1, <1>4, RegisterTyped DEF LInv, HandlersReport
  <1>8. HandlersReport'
    BY <1>5, <1>6, <1>7 DEF HandlersReport
  <1>9. TypeOK'
    <2>1. handlers' \in Seq({Destructor} \cup {Report(v) : v \in hooked'})
      BY <1>5, <1>7, HandlersTyped
    <2>2. tables' \in [Unit -> BOOLEAN] /\ kept' \in [Unit -> Nat]
      BY <1>2, <1>4 DEF LInv, TypeOK
    <2> QED
      BY <1>3, <1>4, <1>5, <1>7, <2>1, <2>2 DEF LInv, TypeOK
  <1>10. AllKept'
    <2>1. tables[t] \in BOOLEAN /\ kept[t] = made - lost /\ (~tables[t] => made = lost)
      BY <1>1, <1>2 DEF LInv, AllKept, TypeOK
    <2>2. kept'[t] = made' - lost' /\ tables'[t]
      BY <1>2, <1>3, <1>4, <2>1 DEF LInv, TypeOK
    <2>3. \A v \in hooked' : kept'[Table(v)'] = made' - lost' /\ (~tables'[Table(v)'] => made' = lost')
      BY <1>2, <1>5, <1>6, <2>2
    <2> QED
      BY <1>3, <1>4, <1>5, <2>3 DEF AllKept, LInv
  <1>11. Marked'
    BY <1>2, <1>3, <1>4, MarksKept DEF LInv, TypeOK
  <1> QED
    BY <1>8, <1>9, <1>10, <1>11 DEF LInv

\* What a check of the exception runtime does.
LEMMA ExceptionHookStep ==
    ASSUME LInv, NEW u \in Unit, Hook(u), tool # "errors"
    PROVE  LInv'
  <1> DEFINE r == Definer(u, "hook")
             t == Table(r)
  <1>1. r \in hooked /\ hooked \subseteq Unit
    BY HookRuns DEF LInv
  <1>2. t \in Unit /\ \A v \in hooked : Table(v) = t
    BY <1>1, OneTable
  <1>3. /\ ExceptionHook(r) /\ made' = made + 1 /\ phase # "linking"
        /\ UNCHANGED <<program, phase, objects, finalized, report>>
    BY DEF Hook
  <1>4. /\ IF tables[t] THEN kept' = [kept EXCEPT ![t] = kept[t] + 1] /\ lost' = lost
           ELSE lost' = lost + 1 /\ kept' = kept
        /\ UNCHANGED <<tables, registered, handlers>>
    BY <1>3 DEF ExceptionHook
  <1> HIDE DEF r, t
  <1>5. hooked' = hooked /\ tool' = tool /\ main' = main /\ marked' = marked
    BY <1>3 DEF program
  <1>6. (\A v : Table(v)' = Table(v)) /\ Handler' = Handler
    BY <1>3, SameProgram
  <1>7. HandlersReport'
    BY <1>4, <1>5, <1>6 DEF HandlersReport, LInv
  <1>8. tables[t] \in BOOLEAN /\ kept[t] = made - lost /\ (~tables[t] => made = lost)
    BY <1>1, <1>2 DEF LInv, AllKept, TypeOK
  <1>9. kept' \in [Unit -> Nat] /\ lost' \in Nat /\ kept'[t] = made' - lost'
        /\ (~tables'[t] => made' = lost')
    <2>1. CASE tables[t]
      <3>1. kept' = [kept EXCEPT ![t] = kept[t] + 1] /\ lost' = lost /\ tables'[t]
        BY <1>4, <2>1
      <3>2. kept \in [Unit -> Nat] /\ made \in Nat /\ lost \in Nat /\ kept[t] \in Nat
        BY <1>2 DEF LInv, TypeOK
      <3>3. kept' \in [Unit -> Nat] /\ kept'[t] = kept[t] + 1
        BY <1>2, <3>1, <3>2
      <3>4. kept[t] + 1 = made + 1 - lost
        BY <1>8, <3>2
      <3> QED
        BY <1>3, <3>1, <3>2, <3>3, <3>4
    <2>2. CASE ~tables[t]
      BY <1>2, <1>3, <1>4, <1>8, <2>2 DEF LInv, TypeOK
    <2> QED
      BY <2>1, <2>2
  <1>10. TypeOK'
    BY <1>3, <1>4, <1>5, <1>9 DEF LInv, TypeOK
  <1>11. AllKept'
    <2>1. \A v \in hooked' : kept'[Table(v)'] = made' - lost' /\ (~tables'[Table(v)'] => made' = lost')
      BY <1>2, <1>5, <1>6, <1>9
    <2>2. phase' \in {"linking", "initializers"} => \A v \in hooked' : tool' # "exceptions" \/ ~tables'[Table(v)']
      BY <1>3, <1>4, <1>5, <1>6 DEF AllKept, LInv
    <2> QED
      BY <1>3, <1>5, <2>1, <2>2 DEF AllKept, LInv
  <1>12. Marked'
    BY <1>3, <1>4, MarksKept
  <1> QED
    BY <1>7, <1>10, <1>11, <1>12 DEF LInv

\* main starts the runtime, or finds it started by a hook.
LEMMA EnterMainStep ==
    ASSUME LInv, EnterMain
    PROVE  LInv'
  <1> DEFINE m == Definer(main, "start")
             t == Table(m)
  <1>1. /\ phase = "initializers" /\ phase' = "main"
        /\ UNCHANGED <<program, made, lost, registered, handlers, objects, finalized, report>>
        /\ IF MainHooked THEN Start(m) ELSE UNCHANGED <<tables, kept>>
    BY DEF EnterMain
  <1>2. hooked' = hooked /\ tool' = tool /\ main' = main /\ marked' = marked
    BY <1>1 DEF program
  <1>3. /\ \A v : Table(v)' = Table(v)
        /\ \A v : Definer(v, "print")' = Definer(v, "print")
        /\ Handler' = Handler /\ MainHooked' = MainHooked
    BY <1>1, SameProgram
  <1>4. /\ tables' \in [Unit -> BOOLEAN] /\ kept' \in [Unit -> Nat]
        /\ \A v \in hooked : /\ kept'[Table(v)] = made - lost
                             /\ ~tables'[Table(v)] => made = lost
                             /\ MainHooked => tables'[Table(v)]
    <2>1. CASE ~MainHooked
      BY <1>1, <2>1 DEF LInv, TypeOK, AllKept
    <2>2. CASE MainHooked
      <3>1. main \in hooked /\ hooked \subseteq Unit
        BY <2>2 DEF MainHooked, LInv, TypeOK
      <3>2. m \in hooked
        BY <3>1, DefinerHooked
      <3>3. t \in Unit /\ \A v \in hooked : Table(v) = t
        BY <3>1, <3>2, OneTable
      <3>4. Start(m)
        BY <1>1, <2>2
      <3>5. /\ tables \in [Unit -> BOOLEAN] /\ kept \in [Unit -> Nat]
            /\ made \in Nat /\ lost \in Nat
            /\ kept[t] = made - lost /\ (~tables[t] => made = lost)
            /\ tool \in Tool /\ (tool = "exceptions" => ~tables[t])
        BY <1>1, <3>2, <3>3 DEF LInv, TypeOK, AllKept
      <3> HIDE DEF t
      <3>6. CASE tool = "errors" /\ tables[t]
        <4>1. UNCHANGED <<tables, kept>>
          BY <3>4, <3>6 DEF Start, t
        <4> QED
          BY <3>3, <3>5, <3>6, <4>1
      <3>7. CASE ~(tool = "errors" /\ tables[t])
        <4>1. tables' = [tables EXCEPT ![t] = TRUE] /\ kept' = [kept EXCEPT ![t] = 0]
          BY <3>4, <3>7 DEF Start, t
        <4>2. made = lost
          BY <3>5, <3>7 DEF Tool
        <4> QED
          BY <3>3, <3>5, <4>1, <4>2
      <3> QED
        BY <3>6, <3>7
    <2> QED
      BY <2>1, <2>2
  <1>5. TypeOK'
    BY <1>1, <1>2, <1>4 DEF LInv, TypeOK, Phase
  <1>6. HandlersReport'
    BY <1>1, <1>2, <1>3 DEF LInv, HandlersReport
  <1>7. AllKept'
    BY <1>1, <1>2, <1>3, <1>4 DEF LInv, AllKept
  <1>8. Marked'
    <2>1. Early' => report' = NoReport /\ \A u \in Unit : ~finalized'[u]
      BY <1>1 DEF LInv, Marked, Early
    <2>2. tool' = "errors" /\ report' # NoReport
              => \E u \in hooked' : finalized'[Definer(u, "print")']
      BY <1>1, <1>2, <1>3 DEF LInv, Marked
    <2>3. phase' = "main" /\ MainHooked' => \A u \in hooked' : tables'[Table(u)']
      BY <1>2, <1>3, <1>4
    <2> QED
      BY <1>1, <2>1, <2>2, <2>3 DEF Marked
  <1> QED
    BY <1>5, <1>6, <1>7, <1>8 DEF LInv

\* What the copy of _FPC_PRINT_LOCATIONS_ in a unit does to the report: it writes
\* a complete one and marks it, or leaves it.
LEMMA ReportStep ==
    ASSUME LInv, NEW p \in hooked, WriteReport(p)
    PROVE  /\ finalized' \in [Unit -> BOOLEAN] /\ report' \in Nat \cup {NoReport}
           /\ report' \in {report, made - lost}
           /\ finalized[p] => report' = report
           /\ tool = "errors" => finalized'[p] /\ \A v \in Unit : finalized[v] => finalized'[v]
           /\ ~finalized[p] /\ tables[Table(p)] => report' = made - lost
  <1>1. p \in Unit /\ finalized \in [Unit -> BOOLEAN] /\ report \in Nat \cup {NoReport}
    BY DEF LInv, TypeOK
  <1>2. kept[Table(p)] = made - lost /\ kept[Table(p)] \in Nat
    BY OneTable DEF LInv, AllKept, TypeOK
  <1>3. /\ finalized' = [finalized EXCEPT ![p] = tool = "errors"]
        /\ report' = IF finalized[p] \/ ~tables[Table(p)] THEN report ELSE kept[Table(p)]
    BY DEF WriteReport
  <1>4. finalized' \in [Unit -> BOOLEAN]
        /\ (tool = "errors" => finalized'[p] /\ \A v \in Unit : finalized[v] => finalized'[v])
    BY <1>1, <1>3
  <1> QED
    BY <1>1, <1>2, <1>3, <1>4

\* A step at the end of the process: main's return and the handlers.
LEMMA EndingStep ==
    ASSUME LInv, UNCHANGED <<program, tables, kept, made, lost, registered, objects>>,
           phase' \in {"exiting", "destructor"}, HandlersReport',
           finalized' \in [Unit -> BOOLEAN], report' \in Nat \cup {NoReport},
           tool = "errors" /\ report' # NoReport => \E u \in hooked : finalized'[Definer(u, "print")]
    PROVE  LInv'
  <1>1. hooked' = hooked /\ tool' = tool /\ main' = main /\ marked' = marked
    BY DEF program
  <1>2. /\ \A v : Table(v)' = Table(v)
        /\ \A v : Definer(v, "print")' = Definer(v, "print")
        /\ Handler' = Handler
    BY SameProgram
  <1>3. TypeOK'
    <2>1. handlers' \in Seq({Destructor} \cup {Report(u) : u \in hooked'})
      BY <1>1, <1>2, HandlersTyped DEF HandlersReport
    <2> QED
      BY <1>1, <2>1 DEF LInv, TypeOK, Phase
  <1>4. AllKept'
    BY <1>1, <1>2 DEF LInv, AllKept
  <1>5. Marked'
    <2>1. tool' = "errors" /\ report' # NoReport
              => \E u \in hooked' : finalized'[Definer(u, "print")']
      BY <1>1, <1>2
    <2> QED
      BY <2>1 DEF Marked, Early
  <1> QED
    BY <1>3, <1>4, <1>5 DEF LInv

LEMMA ReturnMainStep ==
    ASSUME LInv, ReturnMain
    PROVE  LInv'
  <1> DEFINE p == Definer(main, "print")
  <1>1. /\ phase = "main" /\ phase' = "exiting"
        /\ UNCHANGED <<program, tables, kept, made, lost, registered, handlers, objects>>
        /\ IF MainHooked THEN WriteReport(p) ELSE UNCHANGED <<finalized, report>>
    BY DEF ReturnMain
  <1>2. HandlersReport'
    <2>1. Handler' = Handler /\ tool' = tool
      BY <1>1, SameProgram DEF program
    <2> QED
      BY <1>1, <2>1 DEF LInv, HandlersReport
  <1>3. /\ finalized' \in [Unit -> BOOLEAN] /\ report' \in Nat \cup {NoReport}
        /\ tool = "errors" /\ report' # NoReport => \E u \in hooked : finalized'[Definer(u, "print")]
    <2>1. CASE ~MainHooked
      BY <1>1, <2>1 DEF LInv, TypeOK, Marked
    <2>2. CASE MainHooked
      <3>1. main \in hooked /\ p \in hooked
        BY <2>2, DefinerHooked DEF MainHooked
      <3> QED
        BY <1>1, <2>2, <3>1, ReportStep
    <2> QED
      BY <2>1, <2>2
  <1> QED
    BY <1>1, <1>2, <1>3, EndingStep

\* The first handler is a destructor or the report of a kept copy, the latter in
\* the error runtime only.
LEMMA FirstHandler ==
    ASSUME LInv, handlers # <<>>
    PROVE  /\ \/ Head(handlers) = Destructor
              \/ /\ tool = "errors"
                 /\ \E u \in hooked : Head(handlers).unit = Definer(u, "print")
           /\ Tail(handlers) \in Seq(Handler)
           /\ tool = "exceptions" => Tail(handlers) \in Seq({Destructor})
  <1>1. handlers \in Seq(Handler) /\ (tool = "exceptions" => handlers \in Seq({Destructor}))
    BY DEF LInv, HandlersReport
  <1>2. Head(handlers) \in Handler /\ Tail(handlers) \in Seq(Handler)
    BY <1>1
  <1>3. tool = "exceptions" => Head(handlers) = Destructor /\ Tail(handlers) \in Seq({Destructor})
    BY <1>1
  <1>4. Head(handlers) = Destructor \/ \E u \in hooked : Head(handlers).unit = Definer(u, "print")
    BY <1>2 DEF Handler, Report
  <1>5. tool \in {"errors", "exceptions"}
    BY DEF LInv, TypeOK, Tool
  <1> QED
    BY <1>2, <1>3, <1>4, <1>5

LEMMA RunHandlerStep ==
    ASSUME LInv, RunHandler
    PROVE  LInv'
  <1>1. /\ handlers # <<>> /\ handlers' = Tail(handlers)
        /\ phase' \in {"exiting", "destructor"}
        /\ UNCHANGED <<program, tables, kept, made, lost, registered, objects>>
    BY DEF RunHandler
  <1>2. HandlersReport'
    <2>1. Handler' = Handler /\ tool' = tool
      BY <1>1, SameProgram DEF program
    <2> QED
      BY <1>1, <2>1, FirstHandler DEF HandlersReport
  <1>3. /\ finalized' \in [Unit -> BOOLEAN] /\ report' \in Nat \cup {NoReport}
        /\ tool = "errors" /\ report' # NoReport => \E u \in hooked : finalized'[Definer(u, "print")]
    <2>1. CASE Head(handlers) = Destructor
      <3>1. UNCHANGED <<finalized, report>>
        BY <2>1 DEF RunHandler
      <3> QED
        BY <3>1 DEF LInv, TypeOK, Marked
    <2>2. CASE Head(handlers) # Destructor
      <3>1. WriteReport(Head(handlers).unit)
        BY <2>2 DEF RunHandler
      <3>2. PICK u \in hooked : Head(handlers).unit = Definer(u, "print")
        BY <1>1, <2>2, FirstHandler
      <3>3. Head(handlers).unit \in hooked
        BY <3>2, DefinerHooked
      <3> QED
        BY <3>1, <3>2, <3>3, ReportStep
    <2> QED
      BY <2>1, <2>2
  <1> QED
    BY <1>1, <1>2, <1>3, EndingStep

\* Steps that change nothing but the phase, the objects and the handlers.
LEMMA QuietStep ==
    ASSUME LInv, UNCHANGED <<program, tables, kept, made, lost, registered, finalized, report>>,
           objects' \in Nat, HandlersReport', phase' \in Phase \ {"not linked"},
           phase' = "initializers" => phase \in {"linking", "initializers"},
           phase' = "linking" => phase = "linking",
           phase' = "main" => phase = "main"
    PROVE  LInv'
  <1>1. hooked' = hooked /\ tool' = tool /\ main' = main /\ marked' = marked
    BY DEF program
  <1>2. /\ \A v : Table(v)' = Table(v)
        /\ \A v : Definer(v, "print")' = Definer(v, "print")
        /\ Handler' = Handler /\ MainHooked' = MainHooked
    BY SameProgram
  <1>3. TypeOK'
    <2>1. handlers' \in Seq({Destructor} \cup {Report(u) : u \in hooked'})
      BY <1>1, <1>2, HandlersTyped DEF HandlersReport
    <2> QED
      BY <1>1, <2>1 DEF LInv, TypeOK
  <1>4. AllKept'
    BY <1>1, <1>2 DEF LInv, AllKept
  <1>5. Marked'
    <2>1. tool' = "errors" /\ report' # NoReport
              => \E u \in hooked' : finalized'[Definer(u, "print")']
      BY <1>1, <1>2 DEF LInv, Marked
    <2>2. phase' = "main" /\ MainHooked' => \A u \in hooked' : tables'[Table(u)']
      BY <1>1, <1>2 DEF LInv, Marked
    <2>3. Early' => report' = NoReport /\ \A u \in Unit : ~finalized'[u]
      BY DEF LInv, Marked, Early
    <2> QED
      BY <2>1, <2>2, <2>3 DEF Marked, LInv
  <1> QED
    BY <1>3, <1>4, <1>5 DEF LInv

LEMMA LNext == LInv /\ [Next]_vars => LInv'
  <1> SUFFICES ASSUME LInv, [Next]_vars
               PROVE  LInv'
    OBVIOUS
  <1>1. ASSUME NEW u \in Unit, Hook(u)
        PROVE  LInv'
    <2>1. CASE tool = "errors"
      BY <1>1, <2>1, ErrorHookStep
    <2>2. CASE tool # "errors"
      BY <1>1, <2>2, ExceptionHookStep
    <2> QED
      BY <2>1, <2>2
  <1>2. UNCHANGED <<program, handlers>> => HandlersReport'
    <2>1. UNCHANGED program => Handler' = Handler /\ tool' = tool
      BY SameProgram DEF program
    <2> QED
      BY <2>1 DEF LInv, HandlersReport
  <1>3. CASE Link
    <2>1. phase' = "initializers"
      BY <1>3, AllMerged DEF Link, LInv, TypeOK
    <2> QED
      BY <1>2, <1>3, <2>1, QuietStep DEF Link, LInv, TypeOK, Phase
  <1>4. CASE Construct
    <2>1. UNCHANGED <<program, phase>> /\ handlers' = <<Destructor>> \o handlers
      BY <1>4 DEF Construct
    <2>2. Handler' = Handler /\ tool' = tool
      BY <2>1, SameProgram DEF program
    <2>3. <<Destructor>> \in Seq(Handler) /\ <<Destructor>> \in Seq({Destructor})
      BY DEF Handler
    <2>4. HandlersReport'
      BY <2>1, <2>2, <2>3 DEF LInv, HandlersReport
    <2>5. phase' \in Phase \ {"not linked"}
      BY <2>1 DEF LInv, TypeOK, AllKept
    <2>6. objects' \in Nat /\ phase \in {"initializers", "main"}
          /\ UNCHANGED <<program, tables, kept, made, lost, registered, finalized, report>>
      <3>1. objects \in Nat /\ objects' = objects + 1
        BY <1>4 DEF Construct, LInv, TypeOK
      <3> QED
        BY <1>4, <3>1 DEF Construct
    <2> QED
      BY <2>1, <2>4, <2>5, <2>6, QuietStep
  <1>5. CASE EnterMain
    BY <1>5, EnterMainStep
  <1>6. CASE ReturnMain
    BY <1>6, ReturnMainStep
  <1>7. CASE Exit \/ Kill \/ End
    BY <1>2, <1>7, QuietStep DEF Exit, Kill, End, LInv, TypeOK, Phase
  <1>8. CASE RunHandler
    BY <1>8, RunHandlerStep
  <1>9. CASE UNCHANGED vars
    <2>1. phase' \in Phase \ {"not linked"} /\ objects' \in Nat
      BY <1>9 DEF vars, LInv, TypeOK, AllKept
    <2> QED
      BY <1>2, <1>9, <2>1, QuietStep DEF vars
  <1> QED
    BY <1>1, <1>3, <1>4, <1>5, <1>6, <1>7, <1>8, <1>9 DEF Next

LEMMA LAlways == Spec => []LInv
  BY LInit, LNext, PTL DEF Spec
-----------------------------------------------------------------------------
\* For any units in C and C++: the program links, all hooks work on one copy of
\* the tables, and however often hooks, _FPC_INIT_FPCHECKER and main start the
\* runtime, everything recorded is in them.
THEOREM RecordsKept == Spec => []NothingLost
  <1>1. LInv => NothingLost
    BY DEF LInv, AllKept, NothingLost
  <1> QED
    BY <1>1, LAlways, PTL

\* A report that has been written stays in a program of one language.
LEMMA StepKeepsReport ==
    ASSUME LInv, [Next]_vars, report # NoReport
    PROVE  report' \in IF OneLanguage THEN {report} ELSE {report, made - lost}
  <1>1. ~Early
    BY DEF LInv, Marked
  <1>2. CASE RunHandler /\ Head(handlers) # Destructor
    <2>1. WriteReport(Head(handlers).unit) /\ handlers # <<>>
      BY <1>2 DEF RunHandler
    <2>2. PICK u \in hooked : Head(handlers).unit = Definer(u, "print")
      BY <1>2, <2>1, FirstHandler
    <2>3. tool = "errors" /\ Head(handlers).unit \in hooked
      BY <1>2, <2>1, <2>2, FirstHandler, DefinerHooked
    <2>4. PICK v \in hooked : finalized[Definer(v, "print")]
      BY <2>3 DEF LInv, Marked
    <2>5. OneLanguage => finalized[Head(handlers).unit]
      BY <2>2, <2>4, OneFunction
    <2> QED
      BY <2>1, <2>3, <2>5, ReportStep
  <1>3. CASE RunHandler /\ Head(handlers) = Destructor
    BY <1>3 DEF RunHandler
  <1>4. CASE ~RunHandler
    <2>1. ~ReturnMain
      BY <1>1 DEF ReturnMain, Early
    <2> QED
      BY <1>4, <2>1 DEF Next, vars, Link, Hook, Construct, EnterMain, Exit, Kill, End
  <1> QED
    BY <1>2, <1>3, <1>4

\* The return of an instrumented main writes all records.
LEMMA ReturnReports ==
    ASSUME LInv, ReturnMain, MainHooked
    PROVE  report' = made - lost
  <1> DEFINE p == Definer(main, "print")
  <1>1. main \in hooked /\ p \in hooked /\ p \in Unit
    BY DefinerHooked DEF MainHooked, LInv, TypeOK
  <1>2. WriteReport(p) /\ phase = "main"
    BY DEF ReturnMain
  <1>3. ~finalized[p] /\ tables[Table(p)]
    BY <1>1, <1>2 DEF LInv, Marked, Early
  <1> QED
    BY <1>1, <1>2, <1>3, ReportStep

\* While an instrumented main runs, every check finds the table.
LEMMA MainDropsNothing ==
    ASSUME LInv, [Next]_vars, phase = "main", MainHooked
    PROVE  lost' = lost
  <1>1. ASSUME NEW u \in Unit, Hook(u)
        PROVE  lost' = lost
    <2>1. Definer(u, "hook") \in hooked
      BY <1>1, HookRuns DEF LInv
    <2>2. tables[Table(Definer(u, "hook"))]
      BY <2>1 DEF LInv, Marked
    <2> QED
      BY <1>1, <2>2 DEF Hook, ErrorHook, ExceptionHook
  <1> QED
    BY <1>1 DEF Next, vars, Link, Construct, EnterMain, ReturnMain, Exit, Kill, RunHandler, End

\* The report of an instrumented main is complete; neither the exit handler nor
\* a hook in a destructor replaces it in a program of one language, and in one of
\* both only a complete report does.
THEOREM ReportStays == Spec => WrittenOnce
  <1>1. LInv /\ [Next]_vars =>
          [/\ report # NoReport => report' \in IF OneLanguage THEN {report} ELSE {report, made - lost}
           /\ ReturnMain /\ MainHooked => report' = made - lost
           /\ phase = "main" /\ MainHooked => lost' = lost]_vars
    BY StepKeepsReport, ReturnReports, MainDropsNothing
  <1> QED
    BY <1>1, LAlways, PTL DEF Spec, WrittenOnce
=============================================================================
