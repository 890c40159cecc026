--------------------------- MODULE MCLiveLogStream -----------------------------
(* Small instances of LiveLogStream for TLC. *)
EXTENDS LiveLogStream

CONSTANTS kernel, nginx

MCNoFilter == [stream |-> Kinds, query |-> Kinds, to |-> NoTo]
OnlyNginx == [MCNoFilter EXCEPT !.stream = {nginx}]
QueryKernel == [MCNoFilter EXCEPT !.query = {kernel}]
UntilFirst == [MCNoFilter EXCEPT !.to = 1]
AllFilters == {OnlyNginx, QueryKernel, UntilFirst}

=============================================================================
