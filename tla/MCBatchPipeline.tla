-------------------------- MODULE MCBatchPipeline --------------------------
(***************************************************************************)
(* Jobs of up to four nodes and four rows.  A value is a text of one word; *)
(* the name of an input is a letter.                                       *)
(***************************************************************************)
EXTENDS BatchPipeline

AllLabels == <<"literal", "other", "p", "q", "x", "y">>

Texts(words) == [i \in DOMAIN words |-> <<words[i]>>]

Column(label, key) == [label |-> label, key |-> key, items |-> << >>]
Literal(label, words) == [label |-> label, key |-> NoKey, items |-> Texts(words)]

(* One gpu model worth loading once, and a cheap one.                      *)
Base ==
  [inputs |-> [x |-> Texts(<<"1", "2", "3">>), y |-> Texts(<<"9">>)], inputOps |-> {},
   size |-> 1,
   op |-> <<"a", "a", "b">>, kind |-> <<"gpu", "gpu", "gpu">>,
   fields |-> <<<<Column("x", "x")>>, <<Column("other", "x")>>, <<Column("y", "y")>>>>,
   deps |-> <<{}, {}, {1, 2}>>, ref |-> [n \in 1..4 |-> "items"], outputs |-> {3},
   optimizer |-> "plugin", gpuWorkers |-> <<1, 2>>, cpuWorkers |-> << >>,
   pools |-> {{1}, {2}, {1, 2}}, estimates |-> [n \in 1..4 |-> {}],
   exec |-> [a |-> 2000, b |-> 30000, q |-> 0],
   init |-> [a |-> 90000, b |-> 5000, q |-> 0]]

(* Sharded by a plug-in over up to three workers: nodes that follow the    *)
(* shards of others, and one that is cut along an unsharded one.           *)
Sharding ==
  [Base EXCEPT !.inputs = [x |-> Texts(<<"1", "2", "3", "4">>), y |-> Texts(<<"9">>)],
               !.size = 2, !.gpuWorkers = <<1, 2, 3>>, !.deps = <<{}, {1}, {1, 2}>>,
               !.fields[2] = << >>, !.fields[3] = << >>, !.outputs = {1, 3},
               !.pools = {{1}, {1, 2}, {2, 3}, {1, 2, 3}}]
Listed ==
  [Base EXCEPT !.deps = <<{}, {1}, {1, 2}>>, !.ref = [n \in 1..4 |-> "none"]]

(* Inputs that differ in length, or agree in the first slice.              *)
Ragged == [Base EXCEPT !.inputs = [x |-> Texts(<<"1", "2", "3">>), y |-> Texts(<<"8", "9">>)]]
Lookalikes ==
  [Base EXCEPT !.inputs = [x |-> Texts(<<"1", "2">>), y |-> Texts(<<"1", "3">>)],
               !.optimizer = "topological_sort"]

(* Nodes that are identical in one slice and not in the other.             *)
Twins ==
  [Base EXCEPT !.inputs = [x |-> Texts(<<"1", "2">>), y |-> Texts(<<"2">>)],
               !.optimizer = "topological_sort",
               !.fields[2] = <<Column("y", "y")>>, !.fields[3] = <<Literal("literal", <<"7">>)>>]

(* Columns with one label, of two inputs and of one.                       *)
OneLabel ==
  [Base EXCEPT !.inputs = [x |-> Texts(<<"1", "2">>), y |-> Texts(<<"8", "9">>)],
               !.fields = <<<<Column("other", "x")>>, <<Column("other", "y")>>,
                             <<Column("x", "x")>>>>]
Shared == [Base EXCEPT !.fields[1] = <<Column("other", "x")>>]

(* Texts that spell the label of their node.                               *)
Spelled ==
  [Base EXCEPT !.inputs = [x |-> Texts(<<"1", "2">>)], !.optimizer = "topological_sort",
               !.fields = <<<<Column("x", "x"), Literal("p", <<"p">>)>>,
                            <<Column("x", "x"), Literal("q", <<"q">>)>>, << >>>>]

(* Planned by HALO: queries and models that compete for workers.           *)
HaloJobs ==
  {[Base EXCEPT
      !.inputs = [x |-> Texts(<<"1", "2">>)], !.optimizer = "halo", !.gpuWorkers = <<1, 2>>,
      !.cpuWorkers = <<3>>, !.deps = d, !.kind = k, !.outputs = {4}, !.inputOps = {"x"},
      !.op = [n \in 1..4 |-> IF k[n] = "db" THEN "q" ELSE o[n]],
      !.fields = [n \in 1..4 |-> IF d[n] = {} THEN <<Column("x", "x")>> ELSE << >>],
      !.estimates[1] = {[id |-> 1, cost |-> 5000, tables |-> {1}],
                        [id |-> 1, cost |-> 4000, tables |-> {1}],
                        [id |-> 2, cost |-> 4000, tables |-> {2, 3}]},
      !.estimates[2] = {[id |-> 1, cost |-> 4100, tables |-> {1}],
                        [id |-> 2, cost |-> 4001, tables |-> {3}]}] :
    d \in {<<{}, {1}, {1}, {2, 3}>>, <<{}, {}, {1, 2}, {3}>>, <<{}, {}, {}, {1}>>},
    k \in {c \in [1..4 -> {"gpu", "db"}] : c[3] = "gpu"},
    o \in {<<"a", "b", "a", "b">>, <<"a", "a", "b", "a">>}}

(* A query between two models, and one GPU worker.                         *)
HaloChain ==
  {[j EXCEPT !.gpuWorkers = <<1>>, !.cpuWorkers = <<2>>, !.deps = <<{}, {1}, {2}, {3}>>,
             !.kind = <<"gpu", "db", "gpu", "gpu">>, !.op = <<"a", "q", "b", "a">>,
             !.fields = <<<<Column("x", "x")>>, << >>, << >>, << >>>>] :
     j \in {CHOOSE h \in HaloJobs : TRUE}}

(* Three GPU workers, for which the search leaves out epochs of one node:  *)
(* with a model that is slow to load it misses the cheapest schedule.      *)
HaloWide ==
  {[j EXCEPT !.gpuWorkers = <<1, 2, 3>>, !.cpuWorkers = <<4>>, !.deps = d,
             !.kind = [n \in 1..4 |-> "gpu"], !.op = o,
             !.fields = [n \in 1..4 |-> IF d[n] = {} THEN <<Column("x", "x")>> ELSE << >>]] :
     j \in {CHOOSE h \in HaloJobs : TRUE},
     d \in {<<{}, {}, {}, {}>>, <<{}, {1}, {1}, {2, 3}>>, <<{}, {1}, {2}, {3}>>},
     o \in {<<"a", "b", "a", "b">>, <<"a", "a", "b", "a">>}}
  \cup {[j EXCEPT !.gpuWorkers = <<1, 2, 3>>, !.cpuWorkers = <<4>>,
                  !.deps = <<{}, {1}, {2}, {3}>>, !.kind = [n \in 1..4 |-> "gpu"],
                  !.op = [n \in 1..4 |-> "a"], !.init.a = 400000,
                  !.fields = <<<<Column("x", "x")>>, << >>, << >>, << >>>>] :
           j \in {CHOOSE h \in HaloJobs : TRUE}}

(* HALO does not take other nodes.                                         *)
Unsupported ==
  {[j EXCEPT !.kind = <<"gpu", "other", "gpu", "gpu">>, !.op = <<"a", "b", "a", "b">>] :
     j \in {CHOOSE h \in HaloJobs : TRUE}}

AllJobs ==
  {Base, Sharding, Listed, Ragged, Lookalikes, Twins, OneLabel, Shared, Spelled}
    \cup HaloJobs \cup HaloChain \cup HaloWide \cup Unsupported

(* An input of one value that happens to be the first row's.               *)
Coincidence == {[Base EXCEPT !.inputs = [x |-> Texts(<<"1", "2">>), y |-> Texts(<<"1">>)]]}
=============================================================================
