----------------------------- MODULE MCDocuments -----------------------------
(***************************************************************************)
(* One document at a time, out of four families: what a key table and the  *)
(* bindings can say of seeds, strategies and owners, the layers of         *)
(* overrides over it, documents with one fault, surroundings with one      *)
(* fault.                                                                  *)
(***************************************************************************)
EXTENDS DocumentRun

CONSTANTS Misspelled

MCKey == {"a", "b", "theirs", "long", "odd/"}
MCLegalKey == MCKey \ {"odd/"}
MCKeySize == [k \in MCKey |-> IF k = "long" THEN 80 ELSE 6]
MCControlFlowPath == {"control-flow/goto"}
MCResolvePath(spelling) == IF spelling \in {"w.yaml", "./w.yaml"} THEN "w.yaml" ELSE spelling
MCProduced == {Scalar(1), Scalar(9), ListOf(<<1, 1>>)}
MCSiblingBox == [cell |-> Scalar(1), head |-> 2, tail |-> 0,
                 data |-> (0 :> Scalar(1)) @@ (1 :> Scalar(2))]

Operation(type, timeoutMs, accepts) ==
  [type |-> type, timeoutMs |-> timeoutMs, accepts |-> accepts]
MCContract ==
  [p |-> ("take" :> Operation("operation", 5, [x |-> {Scalar(1), Scalar(2), ListOf(<<1>>)}]))
           @@ ("copy" :> Operation("operation", None, <<>>))
           @@ ("control-flow/goto" :> Operation("control-flow", None, <<>>))
           @@ ("control-flow/copy" :> Operation("operation", None, <<>>))
           @@ ("goto" :> Operation("control-flow", None, <<>>))
           @@ ("strange" :> Operation("strange", None, <<>>))
           @@ ("slow" :> Operation("operation", 0, <<>>))]

Strategy(name, valueSizeMax, queueSizeMax, backend) ==
  [name |-> name, valueSizeMax |-> valueSizeMax, queueSizeMax |-> queueSizeMax,
   backend |-> backend, strayField |-> FALSE]
Kv(n) == Strategy("lmdb-kv", n, 0, None)
Fifo(n, slots) == Strategy("lmdb-fifo", n, slots, None)

Entry(strategy, seed, workflow) == [strategy |-> strategy, seed |-> seed, workflow |-> workflow]
Ref(key, workflow) == [key |-> key, workflow |-> workflow, literal |-> FALSE]
Step(operation, inputs, outputs, errors) ==
  [plugin |-> "p", operation |-> operation, inputs |-> inputs, outputs |-> outputs,
   errors |-> errors, timeoutMs |-> None]
Take == Step("take", [x |-> Ref("a", None)], [y |-> Ref("b", None)], [e |-> Ref("b", None)])
Goto == Step("control-flow/goto", [x |-> Ref("b", None)], <<>>, [e |-> Ref("b", None)])

Document(strategy, keys, steps) ==
  [kind |-> "Workflow", formatVersion |-> "1.0", removedBlock |-> FALSE,
   defaultStrategy |-> strategy, keys |-> keys, plugins |-> {"p"}, steps |-> steps]
Plain == Document(Kv(3), [a |-> Entry(Fifo(3, 3), ListOf(<<1, 1>>), None)], <<Take, Goto>>)

Surroundings ==
  [scratch |-> FALSE, fresh |-> FALSE,
   directories |-> <<{}, {[id |-> 1, lists |-> TRUE]}>>,
   workspace |-> [schemaHolds |-> TRUE, rotate |-> {}, seedOverrides |-> {},
                  workflowPathList |-> {"w.yaml"}, backends |-> {"r1"}],
   flags |-> <<>>, connectable |-> {"r1"}, installed |-> [p |-> {"target"}, q |-> {"cwd"}],
   lock |-> [valid |-> TRUE, hashes |-> [p |-> "installed"]]]

Seeds == {None, Scalar(1), Scalar(4), ListOf(<<>>), ListOf(<<1>>), ListOf(<<1, 2>>),
          ListOf(<<1, 1, 1>>), ListOf(<<9>>)}

(* The strategies and seeds of a, the owner of the other keys, and what    *)
(* two steps bind.                                                         *)
StorageSteps ==
  {Take, Goto,
   Step("copy", [x |-> Ref("theirs", None)], [y |-> Ref("a", None)], <<>>),
   Step("copy", [x |-> Ref("theirs", "other")], <<>>, [e |-> Ref("theirs", None)]),
   Step("copy", [x |-> Ref("a", "me"), z |-> Ref("b", "other")], [y |-> Ref("theirs", None)],
        [e |-> Ref("b", None)])}
Storage ==
  {Document(d, ("a" :> Entry(s, v, None)) @@ ("theirs" :> Entry(t, None, w)), <<one, two>>) :
     d \in {Kv(3), Fifo(4, 3)}, s \in {None, Fifo(2, 2), Fifo(3, 3)}, v \in Seeds,
     t \in {None, Fifo(3, 3)}, w \in {None, "other"},
     one \in StorageSteps, two \in StorageSteps}

Layers == {<<>>} \cup {[a |-> v] : v \in Seeds \ {None}} \cup {[b |-> Scalar(1)], [theirs |-> Scalar(1)]}
Flags == {<<>>} \cup {<<[key |-> "a", value |-> v]>> : v \in Seeds}
           \cup {<<[key |-> "a", value |-> Scalar(9)], [key |-> "a", value |-> ListOf(<<2>>)]>>,
                 <<[key |-> "b", value |-> Scalar(1)]>>}
Blocks(layer) == {[authored |-> "./w.yaml", values |-> layer]}
Overridden ==
  {[document |-> [Plain EXCEPT !.keys["a"].strategy = s, !.keys["a"].seed = v],
    around |-> [Surroundings EXCEPT !.workspace.seedOverrides = Blocks(layer), !.flags = flags,
                                    !.scratch = scratch]] :
     s \in {Kv(3), Fifo(3, 3)}, v \in {Scalar(1), ListOf(<<1>>)}, layer \in Layers,
     flags \in Flags, scratch \in BOOLEAN}

Redis(name, slots, backend) == Strategy(name, 3, slots, backend)
WithStep(step) == [Plain EXCEPT !.steps = <<Take, step>>]
WithKey(k) == WithStep(Step("copy", <<>>, [y |-> Ref(k, None)], <<>>))
Faulty ==
  {[Plain EXCEPT !.kind = k] : k \in {None, "Workspace"}}
  \cup {[Plain EXCEPT !.formatVersion = v] : v \in {None, "2.0"}}
  \cup {[Plain EXCEPT !.removedBlock = TRUE], [Plain EXCEPT !.steps[1].inputs["x"].literal = TRUE]}
  \cup {[Plain EXCEPT !.steps[1].timeoutMs = t] : t \in {0, 1, 7, 8, Unbounded, Misspelled}}
  \cup {[Plain EXCEPT !.defaultStrategy = s] :
          s \in {[Kv(3) EXCEPT !.strayField = TRUE], Kv(0), Fifo(3, 1), Kv(4000),
                 Redis("redis-kv", 0, "r1"), Redis("redis-kv", 0, None)}}
  \cup {[[Plain EXCEPT !.defaultStrategy = s] EXCEPT !.keys["a"].strategy = t] :
          s \in {Redis("redis-kv", 0, "r1")},
          t \in {Redis("redis-fifo", n, b) : n \in {0, 1, 2}, b \in {"r1", "r2"}}}
  \cup {WithKey(k) : k \in {"long", "odd/", "b"}}
  \cup {WithStep(Step(o, <<>>, [y |-> Ref("b", None)], <<>>)) : o \in DOMAIN MCContract["p"] \cup {"none"}}
  \cup {WithStep(Step(o, <<>>, <<>>, <<>>)) : o \in DOMAIN MCContract["p"]}
  \cup {WithStep(Step("copy", [x |-> Ref("long", "other")], [y |-> Ref("b", w)], [e |-> Ref("b", v)])) :
          w \in {None, "other"}, v \in {None, "other"}}
  \cup {[Plain EXCEPT !.plugins = ps] : ps \in {{}, {"p", "q"}}}
  \cup {[Plain EXCEPT !.keys["a"].workflow = w] : w \in {"me", "other"}}

Disturbed ==
  {[Surroundings EXCEPT !.workspace.schemaHolds = FALSE],
   [Surroundings EXCEPT !.lock.valid = FALSE],
   [Surroundings EXCEPT !.lock.hashes = <<>>]}
  \cup {[Surroundings EXCEPT !.lock.hashes["p"] = "other", !.scratch = b] : b \in BOOLEAN}
  \cup {[Surroundings EXCEPT !.workspace.rotate = r, !.scratch = b] :
          r \in SUBSET {"maxBytes", "maxFiles"}, b \in BOOLEAN}
  \cup {[Surroundings EXCEPT !.workspace.seedOverrides = bs, !.workspace.workflowPathList = ws] :
          bs \in {Blocks(None), Blocks([a |-> ListOf(<<2>>)]),
                  Blocks(<<>>) \cup {[authored |-> "w.yaml", values |-> [a |-> ListOf(<<1>>)]]},
                  {[authored |-> "v.yaml", values |-> [a |-> Scalar(9)]]}},
          ws \in {{"w.yaml"}, {"v.yaml"}, {"./w.yaml", "v.yaml"}}}
  \cup {[Surroundings EXCEPT !.installed["p"] = fs] :
          fs \in {{}, {"workspace"}, {"cwd", "workflow"}, {"workflow"}, {"runner"}, {"runner", "workflow"}}}
  \cup {[Surroundings EXCEPT !.scratch = TRUE, !.fresh = b] : b \in BOOLEAN}
  \cup {[Surroundings EXCEPT !.directories = ds] :
          ds \in {<<{}>>, <<{[id |-> 1, lists |-> FALSE], [id |-> 2, lists |-> FALSE]}>>,
                  <<{[id |-> 1, lists |-> FALSE], [id |-> 2, lists |-> TRUE]}, {}>>,
                  <<{[id |-> 1, lists |-> FALSE]}>>}}
  \cup {[Surroundings EXCEPT !.workspace.backends = bs, !.connectable = cs, !.scratch = b] :
          bs \in {{}, {"r1", "r2"}}, cs \in {{}, {"r1", "r2"}}, b \in BOOLEAN}

OnRedis == [Plain EXCEPT !.defaultStrategy = Redis("redis-kv", 0, "r1"),
                         !.keys["a"].strategy = Redis("redis-fifo", 2, "r1")]

MCScenario ==
  {[document |-> d, around |-> Surroundings] : d \in Storage \cup Faulty}
  \cup Overridden
  \cup {[document |-> d, around |-> w] : d \in {Plain, OnRedis}, w \in Disturbed}
=============================================================================
