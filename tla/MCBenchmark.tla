---------------------------- MODULE MCBenchmark -----------------------------
(* The instance of Benchmark that is model-checked. *)
EXTENDS Benchmark

(* One solver, then two. *)
SolversOfSuites == <<1, 2>>

(* No directory, an empty one, and files that end before, with, and after  *)
(* a batch.                                                                *)
SomeDirectories == {NoDirectory, <<>>, <<0, 2>>, <<1, 2>>}
=============================================================================
