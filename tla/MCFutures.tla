----------------------------- MODULE MCFutures ------------------------------
EXTENDS Futures

\* Every task may come to hold every future, its own included: handles travel
\* through captured variables and shared arrays.
AnyHolder == Task \X Fut
=============================================================================
