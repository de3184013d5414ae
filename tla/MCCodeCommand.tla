--------------------------- MODULE MCCodeCommand ---------------------------
(* The registries of the command line, and one with a handler of a caller. *)
EXTENDS CodeCommand

MCRegistries == {NoRegistry, DefaultRegistry,
                 Register(DefaultRegistry, "pre_exec", "custom")}
=============================================================================
