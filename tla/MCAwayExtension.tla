--------------------------- MODULE MCAwayExtension ---------------------------
(* AwayExtension with two requests and two helpers .                       *)
EXTENDS AwayExtension

CONSTANTS A, B, h1, h2

\* Both are of the Pi process, or one is of a service.
OneOrBoth == {{A, B}, {A}}

=============================================================================
