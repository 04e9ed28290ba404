------------------------------ MODULE MC_Cli ------------------------------
(***************************************************************************)
(* The CLI against a server run with --password p1.  The command lines     *)
(* cover a ping and the authenticated requests with the right password,    *)
(* a wrong one, a zero timeout, a bad int, an int past INT_MAX, a key      *)
(* without its value, and no arguments at all.                             *)
(***************************************************************************)
EXTENDS Cli

MCArgvs ==
    { <<"--ping", "true", "--password", "p1">>,
      <<"--create-chain", "true", "--password", "p1">>,
      <<"--add-block", "true", "--data", "d1", "--password", "p2">>,
      <<"--get-block", "true", "--timeout", "0", "--password", "p1">>,
      <<"--verify-chain", "true", "--chain-id", "x">>,
      <<"--get-info", "true", "--block-id", "99999999999">>,
      <<"--remove-chain">>,
      <<>> }

\* A session of requests with the right password, one polling for zero
\* seconds, one with a negative timeout, and runs that send nothing (no
\* request flag, a bad argument).
MCSessionArgvs ==
    { <<"--get-block", "true", "--timeout", "0", "--password", "p1">>,
      <<"--get-header", "true", "--timeout", "-1", "--password", "p1">>,
      <<"--create-chain", "true", "--password", "p1">>,
      <<"--add-block", "true", "--data", "d1", "--password", "p1">>,
      <<"--verify-chain", "true", "--password", "p2">>,
      <<"--get-blocks", "true", "--chain-id", "1", "--password", "p1">>,
      <<"--remove-chain">>,
      <<>> }

MCIntPrefix(w) ==
    CASE w = "0" -> 0
      [] w = "-1" -> -1
      [] w = "1" -> 1
      [] w = "99999999999" -> Overflow
      [] OTHER -> NoInt

MCDataLength(d) == IF d = "{}" THEN 2 ELSE 8192

MCPayloads == {"{}", "d1"}

=============================================================================
