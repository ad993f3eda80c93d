------------------------------ MODULE MCMalloc ------------------------------
(* Small instances of the allocator for TLC. *)
EXTENDS MallocProperties

(* Requests that make blocks of two words, the minimum, and of six. *)
SmallRequests == {1, 5}
WithZero      == {0, 1, 5}
(* Products in size_t: 2 * 8 and 3 * 6 wrap to 0 and 2. *)
SomeArrays    == {<<1, 9>>, <<2, 8>>, <<3, 6>>}
HugeRequests  == {1, 14, 15}
EmptyArray    == {<<0, 1>>}
ProgramData   == -1
=============================================================================
