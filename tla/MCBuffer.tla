------------------------------ MODULE MCBuffer ------------------------------
(* A vector of four cells, one of them prefix, through which a stream      *)
(* flows that is longer than the vector ever gets.                         *)
EXTENDS Buffer

CONSTANTS x, y, cr, lf, nul

MCByte == {x, y, cr, lf, nul}

(* Line ends, split over two chunks too, and chunks up to InitSize.        *)
SmallChunks == {<<x>>, <<y, cr>>, <<lf, x, y>>, <<cr, lf, y, x>>}

(* Chunks of which some are more than twice as large as the vector.        *)
LargeChunks == {<<x, y>>, <<x, y, y, x, y, x, x, y, x>>}

=============================================================================
