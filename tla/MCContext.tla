------------------------------- MODULE MCContext -------------------------------
EXTENDS Context
===============================================================================
