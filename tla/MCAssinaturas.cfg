\* Checkout, reconciliation and the end of the account against a provider that moves.
SPECIFICATION SpecJusta
CONSTANTS
    t1 = t1  rotina = rotina  k1 = k1  k2 = k2  k3 = k3  basico = basico  pro = pro  e1 = e1
    Nada = Nada
    Requisicoes = {t1}
    Rotina = rotina
    Chaves = {k1, k2}
    Planos = {basico, pro}
    Exclusoes = {e1}
    MaxVersao = 2
INVARIANTS UmaContratacao ContaSemCobranca ReciboConfere
PROPERTIES NuncaVolta CanceladaNaoRemove ConcordaNoFim
CHECK_DEADLOCK FALSE
