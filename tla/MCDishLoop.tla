----------------------------- MODULE MCDishLoop -----------------------------
EXTENDS DishLoop, TLC
=============================================================================
