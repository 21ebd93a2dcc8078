------------------------------- MODULE MCTaskMem -------------------------------
EXTENDS TaskMem
===============================================================================
