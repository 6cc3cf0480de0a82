\* Every way into the agenda, in any order.
SPECIFICATION Spec
CONSTANTS
    c1 = c1  c2 = c2  s1 = s1  f1 = f1
    Qualquer = Qualquer  Livre = Livre  Nenhum = Nenhum
    Profissionais <- MCProfissionais
    Servicos = {s1}
    Chamadas = {c1, c2}
    Pedidos <- MCPedidos
    Telefones = {f1}
    Duracoes = {1, 2}
    Expedientes <- MCExpedientes
    MaxQuantidade = 2
    Horizonte = 2
INVARIANTS SemSobreposicao SerieCancelada FichaPorAgenda
PROPERTIES SoTransicoes OfertaAceita
SYMMETRY Simetria
CHECK_DEADLOCK FALSE
