----------------------------- MODULE MCWarehouse ------------------------------
(* Threads of the desktop sidecar and of a maintenance script.              *)
EXTENDS Warehouse

CONSTANTS w1, w2, w3, desktop, script, ohlc, flow, a, b

\* The last writer is the script's, the others are threads of the sidecar.
MCProcOf ==
    [w \in Writers |-> IF w = w3 THEN script ELSE desktop]

\* Rows with some of the columns: the price sync writes no flows.
Rows(C, v) == [x \in Cells |-> IF x \in C THEN v ELSE NaN]

FirstYear == CHOOSE y \in Years : \A z \in Years : y <= z

\* One batch has the bars of all years, the other the whole rows of the first year.
MCBatches ==
    {[y \in Years |-> Rows({ohlc}, a)],
     [y \in Years |-> IF y = FirstYear THEN Rows(Cells, b) ELSE Absent]}
===============================================================================
