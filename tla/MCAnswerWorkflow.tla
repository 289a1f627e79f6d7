-------------------------- MODULE MCAnswerWorkflow --------------------------
EXTENDS AnswerWorkflow

CONSTANTS c1, fake
=============================================================================
