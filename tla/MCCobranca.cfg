\* Two subscriptions charged at once.
SPECIFICATION Spec
CONSTANTS
    t1 = t1  rotina = rotina  k1 = k1  k2 = k2  k3 = k3  basico = basico  pro = pro  e1 = e1
    Nada = Nada
    Requisicoes = {t1}
    Rotina = rotina
    Chaves = {k1, k2, k3}
    Planos = {basico, pro}
    Exclusoes = {}
    MaxVersao = 2
INVARIANTS UmaCobranca
CHECK_DEADLOCK FALSE
SYMMETRY Simetria
