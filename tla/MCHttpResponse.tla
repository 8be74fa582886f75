--------------------------- MODULE MCHttpResponse ---------------------------
(* Two codes, two header names, an empty value and one with a colon, and   *)
(* bodies that look like the end of a head.                                *)
EXTENDS HttpResponse

CONSTANTS c200, c404, ok, not, found, host, date, v1, http, sp, colon, cr, lf, nul

MCByte == {c200, c404, ok, not, found, host, date, v1, http, sp, colon, cr, lf, nul}
MCMessage == (c200 :> <<ok>>) @@ (c404 :> <<not, sp, found>>)
MCName == {<<host>>, <<date>>}
MCValue == {<<>>, <<v1, colon, v1>>}
MCBody == {<<cr, lf, cr, lf, v1>>, <<v1>>}

=============================================================================
